---- MODULE Spec2Model ----
(***************************************************************************)
(* Oracyn backend: chat / message orchestration, document upload and the   *)
(* account routes, modelled as HTTP request handlers running concurrently  *)
(* against one relational store.  One step of a handler is the completion  *)
(* of the operation it awaits (a database call, the AI call, the object    *)
(* store) followed by the synchronous code up to the next await.           *)
(***************************************************************************)
EXTENDS Integers, Sequences, FiniteSets, TLC

\* ---------------------------------------------------------------- bounds
MaxReqs == 2
MaxFaults == 1
MaxOwnerReqs == 1
MaxChats == 5

\* ------------------------------------------------------- program constants
FileSizeLimit10MB == 10485760
FileSizeLimit15MB == 15000000
NoLimit == 0

\* ------------------------------------------------------------ value sets
Callers == {"u1", "u2"}
ChatIds == 1..MaxChats
NoText == "<undefined>"
Contents == {NoText, "hi"}
ErrMsgs == {"timeout", "ECONNREFUSED"}
FileSizes == {1, FileSizeLimit15MB + 1}
ReqIds == 1..MaxReqs

\* A string is a sequence of tokens; a token is a literal or a number
\* rendered with one decimal.
Lit(s) == [t |-> s, n |-> 0]
Pct(permille) == [t |-> "%.1f", n |-> permille]

\* ----------------------------------------------------------------- tables
NoChat == [id |-> 0, userId |-> "", title |-> "", status |-> "", state |-> ""]

\* the lookup without the owner in its where clause
FindFirstChatAnyUser(table, id, userId) ==
  IF \E c \in table : c.id = id
  THEN CHOOSE c \in table : c.id = id
  ELSE NoChat

\* prisma.chat.findFirst({ where: { id, userId } })
FindFirstChat(table, id, userId) ==
  IF \E c \in table : c.id = id /\ c.userId = userId
  THEN CHOOSE c \in table : c.id = id /\ c.userId = userId
  ELSE NoChat

ChatExists(table, id) == \E c \in table : c.id = id

\* a delete that leaves the rows of the relation alone
RestrictDeleteSeq(rows, id) == rows

\* prisma.chat.delete with the schema's onDelete: Cascade relations
CascadeDeleteSeq(rows, id) == SelectSeq(rows, LAMBDA m : m.chatId # id)

\* prisma.document.findMany({ where: { chatId } })
DocsOfChat(docs, id) == SelectSeq(docs, LAMBDA d : d.chatId = id)

\* -------------------------------------------------------------- AI texts
\* x * 100 is a binary floating point product: for these x (in 1/10000) of
\* 0..1 that end in 5 it lies below the decimal half, at or above it for
\* the other ones
BelowHalf ==
  { 15, 45, 55, 95, 115, 185, 195, 215, 255, 265, 295, 305, 315, 355, 365,
    405, 435, 455, 515, 535, 555, 595, 605, 635, 705, 715, 725, 735, 745,
    755, 765, 785, 835, 865, 885, 895, 905, 935, 945, 985, 1035, 1045,
    1055, 1085, 1095, 1135, 1185, 1195, 1205, 1235, 1245, 1285, 1415,
    1425, 1435, 1445, 1455, 1465, 1485, 1495, 1505, 1535, 1545, 1585,
    1645, 1735, 1745, 1755, 1765, 1785, 1795, 1815, 1845, 1865, 1895,
    1915, 1945, 2035, 2045, 2055, 2065, 2085, 2095, 2115, 2135, 2145,
    2165, 2195, 2215, 2245, 2295, 2345, 2355, 2365, 2385, 2395, 2415,
    2435, 2445, 2465, 2495, 2515, 2545, 2595, 2815, 2825, 2835, 2845,
    2855, 2865, 2875, 2885, 2895, 2905, 2915, 2935, 2945, 2955, 2965,
    2985, 2995, 3005, 3015, 3035, 3045, 3065, 3095, 3115, 3145, 3165,
    3195, 3205, 3215, 3265, 3315, 3445, 3455, 3465, 3485, 3495, 3505,
    3515, 3545, 3555, 3565, 3595, 3605, 3615, 3645, 3655, 3665, 3705,
    3715, 3755, 3765, 3805, 3815, 3865, 3915, 3965, 4065, 4085, 4095,
    4105, 4115, 4135, 4145, 4155, 4165, 4195, 4205, 4215, 4245, 4255,
    4265, 4305, 4315, 4355, 4365, 4405, 4415, 4455, 4465, 4515, 4565,
    4695, 4705, 4715, 4735, 4745, 4755, 4765, 4795, 4805, 4815, 4845,
    4855, 4865, 4895, 4905, 4915, 4955, 4965, 5005, 5015, 5025, 5035,
    5045, 5055, 5065, 5075, 5085, 5095, 5105, 5115, 5125, 5135, 5145,
    5155, 5165, 5175, 5185, 5195, 5205, 5215, 5235, 5245, 5255, 5265,
    5285, 5295, 5305, 5315, 5335, 5345, 5355, 5365, 5385, 5395, 5405,
    5415, 5445, 5455, 5465, 5495, 5505, 5515, 5555, 5565, 5605, 5615,
    5655, 5665, 5705, 5715, 5765, 5815, 6255, 6265, 6275, 6285, 6295,
    6305, 6315, 6325, 6335, 6345, 6355, 6365, 6375, 6385, 6395, 6405,
    6415, 6435, 6455, 6465, 6485, 6505, 6515, 6535, 6555, 6565, 6585,
    6605, 6615, 6635, 6655, 6665, 6685, 6705, 6735, 6755, 6785, 6805,
    6835, 6855, 6885, 6905, 6935, 6955, 6985, 7005, 7035, 7055, 7105,
    7155, 7205, 7255, 7305, 7505, 7515, 7535, 7545, 7555, 7565, 7585,
    7595, 7605, 7615, 7635, 7645, 7655, 7665, 7685, 7705, 7715, 7735,
    7755, 7765, 7785, 7805, 7815, 7835, 7855, 7865, 7885, 7905, 7915,
    7935, 7955, 7985, 8005, 8035, 8055, 8085, 8105, 8135, 8155, 8185,
    8205, 8235, 8255, 8285, 8305, 8355, 8405, 8455, 8505, 8555, 8755,
    8765, 8785, 8795, 8805, 8815, 8835, 8845, 8855, 8865, 8885, 8895,
    8905, 8915, 8935, 8955, 8965, 8985, 9005, 9015, 9035, 9055, 9065,
    9085, 9105, 9115, 9135, 9155, 9165, 9185, 9205, 9235, 9255, 9285,
    9305, 9335, 9355, 9385, 9405, 9435, 9455, 9485, 9505, 9535, 9555,
    9605, 9655, 9705, 9755, 9805 }

\* (x * 100).toFixed(1), x given in 1/10000 (0..10000); the result is in
\* tenths: toFixed rounds the exact value of the double, half up
ToFixed1(bp) == IF bp \in BelowHalf THEN bp \div 10 ELSE (bp + 5) \div 10

AIResponses ==
  { [answer |-> "ok", sources |-> << >>, confidence |-> 0],
    [answer |-> "ok",
     sources |-> << [file_name |-> "a.pdf", relevance_score |-> 8756],
                    [file_name |-> "b.pdf", relevance_score |-> 45] >>,
     confidence |-> 9000] }

RECURSIVE SourceLines(_, _)
SourceLines(sources, index) ==
  IF index > Len(sources) THEN << >>
  ELSE << [t |-> "#", n |-> index], Lit(sources[index].file_name),
          Pct(ToFixed1(sources[index].relevance_score)) >>
       \o SourceLines(sources, index + 1)

\* generateAIResponse, success branch
FormatResponse(response) ==
  << Lit(response.answer) >>
  \o (IF Len(response.sources) > 0
      THEN << Lit("**Sources:**") >> \o SourceLines(response.sources, 1)
      ELSE << >>)
  \o (IF response.confidence # 0
      THEN << Lit("*Confidence: "), Pct(ToFixed1(response.confidence)) >>
      ELSE << >>)

RECURSIVE DocLines(_, _)
DocLines(docs, i) ==
  IF i > Len(docs) THEN << >>
  ELSE << Lit(docs[i].name),
          Lit(IF docs[i].processed THEN "Processed" ELSE "Processing...") >>
       \o DocLines(docs, i + 1)

ApologyHead ==
  Lit("I apologize, but I'm currently experiencing technical difficulties processing your question.")

\* aiService.processQuery wraps the transport error
QueryError(msg) == << Lit("Query processing failed: "), Lit(msg) >>

\* generateAIResponse, catch branch
FallbackResponse(docs, msg) ==
  << ApologyHead, Lit("**Your uploaded documents:**") >>
  \o DocLines(docs, 1)
  \o << Lit("Please try again in a moment. If the issue persists, please contact support."),
        Lit("*Error: ") >>
  \o QueryError(msg)

\* addMessage, .catch branch
UnavailableText == << Lit("Sorry, the AI assistant is currently unavailable.") >>

\* ai-service answers seen by addMessage: response.data.answer
RestAnswers == {"ok", NoText}

\* --------------------------------------------------------------- requests
NoUpd == [status |-> "", title |-> "", state |-> ""]
UpdateBodies ==
  { [status |-> "STARRED", title |-> "", state |-> ""],
    [status |-> "", title |-> "t2", state |-> "VISUALIZE"] }

IdleReq ==
  [op |-> "none", route |-> "", caller |-> "", chat |-> 0, content |-> NoText,
   upd |-> NoUpd, file |-> 0, mime |-> "", mtype |-> "", pc |-> "idle",
   status |-> 0, seen |-> NoChat,
   ai |-> "", err |-> "", text |-> << >>, userIns |-> 0, asstIns |-> 0,
   cont |-> "none"]

VARIABLES chats, messages, documents, charts, disk, objects, reqs, faults,
          users, areqs, clock,
          userRequests,
          dateNow,
          rlog,
          files,
          queries,
          freqs

chatVars ==
  << chats, messages, documents, charts, disk, objects, reqs, faults >>

authVars == << users, areqs, clock >>

vars == << chats, messages, documents, charts, disk, objects, reqs, faults,
           users, areqs, clock,
           userRequests,
           dateNow,
           rlog,
           files,
           queries,
           freqs >>

tables == << chats, messages, documents >>

\* the state of the rate limiter and of the Firestore routes
extVars == << userRequests, dateNow, rlog, files, queries, freqs >>

\* ------------------------------------------------- authenticatedRateLimit
\* the options of the limiter: windowMs and max
RateWindow == 2

RateMax == 2

\* the requests and the milliseconds of a run
MaxLog == 4

MaxNow == 4

\* req.user: undefined, or the user an earlier middleware has set
RateUsers == {"u1", "u2"}

ReqUsers == { << >> } \cup { << u >> : u \in RateUsers }

\* ------------------------------------------ Firestore: files and queries
fireVars == << files, queries, freqs >>

\* the files of one request
MaxBatch == 2

\* a document id: uuidv4() and the ids Firestore assigns
Doc(n) == [t |-> "doc", n |-> n]

\* an id no document has
Missing == Doc(0)

\* the documents of earlier requests: u1 has a file whose processing failed
\* and a completed query, u2 a processed file and a failed query
InitFiles ==
  { [id |-> Doc(1), userId |-> "u1", processingStatus |-> "failed"],
    [id |-> Doc(2), userId |-> "u2", processingStatus |-> "completed"] }

InitQueries ==
  { [id |-> Doc(1), userId |-> "u1", status |-> "completed"],
    [id |-> Doc(2), userId |-> "u2", status |-> "failed"] }

\* how a handler is called: by the router, which holds the method as a plain
\* function, or as a method of the exported controller
Vias == {"router", "direct"}

\* a request of the Firestore routes: the handler and its locals
IdleFireReq ==
  [op |-> "none", via |-> "", method |-> "", path |-> << >>, caller |-> "",
   fileIds |-> << >>, i |-> 0, pc |-> "idle", status |-> 0, body |-> << >>,
   queryId |-> Missing, snapshot |-> {}, events |-> << >>, ai |-> "",
   aiCalls |-> 0, writes |-> 0, called |-> FALSE]

\* a column that holds null
Null == << >>

\* 24 * 60 * 60 * 1000 ms and 60 * 60 * 1000 ms, in hours: the clock of the
\* model counts hours since the seed script ran
VerificationTTL == 24

ResetTTL == 1

\* bcrypt's hash of a password
hashPassword(password) == [bcrypt |-> password]

\* a User row of createDemoUsers: active, with no reset token; the row of
\* the unverified account also holds a verification token and its expiry
SeedUser(id, email, username, password, isVerified, token, expires) ==
  [id |-> id, email |-> << Lit(email) >>, username |-> << Lit(username) >>,
   isActive |-> TRUE, isVerified |-> isVerified,
   password |-> hashPassword(password),
   emailVerificationToken |-> token, emailVerificationExpires |-> expires,
   passwordResetToken |-> Null, passwordResetExpires |-> Null]

\* prisma.user rows as the seed script leaves them, numbered in the order of
\* its upserts: three verified accounts and one that has not verified its
\* email
InitUsers ==
  { SeedUser(1, "admin@oracyn.com", "admin", "AdminPass123!", TRUE,
             Null, Null),
    SeedUser(2, "john.doe@example.com", "johndoe", "UserPass123!", TRUE,
             Null, Null),
    SeedUser(3, "jane.smith@example.com", "janesmith", "UserPass123!", TRUE,
             Null, Null),
    SeedUser(4, "unverified@example.com", "unverified", "UserPass123!", FALSE,
             << Lit("demo-verification-token-123") >>,
             << VerificationTTL >>) }

NoToken == [kind |-> "none", userId |-> 0]

\* a request to an account route: what it sent (token is its Authorization
\* header or refresh token, secret the token of its body), where its handler
\* stands, and what it got: the status and code of the response, the tokens
\* in its body (access, meta) and cookie, the number of next() calls and the
\* id of req.user; user, expires, hash and asOf are the handler's locals
\* user.id, the expiry date it computed, the user.password it read and the
\* date it took for its query; password is the currentPassword of its body
IdleAuthReq ==
  [op |-> "none", token |-> NoToken, email |-> << >>, username |-> << >>,
   secret |-> Null, password |-> "", pc |-> "idle", status |-> 0,
   code |-> "", access |-> 0, cookie |-> 0, meta |-> Null, nexts |-> 0,
   ident |-> 0, user |-> 0, expires |-> Null, hash |-> Null, asOf |-> Null]

\* a Chat row of createDemoChats: the script gives title and owner, the
\* other columns take their defaults
SeedChat(id, userId, title) ==
  [id |-> id, userId |-> userId, title |-> title, status |-> "NONE",
   state |-> "UPLOAD"]

\* a Message row of createDemoChats: the script gives the text and who wrote
\* it, no type, and no request of the server wrote the row
SeedMessage(chatId, role, content) ==
  [chatId |-> chatId, sender |-> role, content |-> << Lit(content) >>,
   type |-> "", req |-> 0]

\* the chats the seed script writes, in its order: two of johndoe (the
\* caller u1 of the chat routes) and two of janesmith (the caller u2)
InitChats ==
  { SeedChat(1, "u1", "Q4 Financial Analysis"),
    SeedChat(2, "u1", "Market Research Analysis"),
    SeedChat(3, "u2", "Sales Performance Dashboard"),
    SeedChat(4, "u2", "Customer Analytics Report") }

\* the messages the seed script writes with its chats
InitMessages ==
  << SeedMessage(1, "assistant",
       "Welcome! Upload your financial documents to get started with analysis."),
     SeedMessage(1, "user",
       "I need to analyze our Q4 financial performance and create some charts."),
     SeedMessage(1, "assistant",
       "I can help you analyze financial documents and create visualizations. Please upload your Q4 financial reports."),
     SeedMessage(2, "assistant",
       "How can I help you with your market research today?"),
     SeedMessage(2, "user",
       "I have market research data that needs to be visualized for our executive presentation."),
     SeedMessage(2, "assistant",
       "Perfect! I can help create professional charts and insights from your market research data. What type of data do you have?"),
     SeedMessage(2, "user",
       "Customer survey results, competitor analysis, and market sizing data."),
     SeedMessage(3, "assistant",
       "Hi! Ready to create some amazing visualizations from your data?"),
     SeedMessage(3, "user",
       "Yes! I need to create a sales dashboard for our monthly review."),
     SeedMessage(3, "assistant",
       "Great! I can help you build comprehensive sales dashboards. What metrics would you like to focus on?"),
     SeedMessage(4, "assistant",
       "Welcome to Oracyn! What would you like to analyze today?"),
     SeedMessage(4, "user",
       "I want to analyze customer behavior patterns and create insights.") >>

\* the database after the seed script has run, and a server with no request
Init ==
  /\ chats = InitChats
  /\ messages = InitMessages
  /\ documents = << >>
  /\ charts = << >>
  /\ disk = {}
  /\ objects = {}
  /\ reqs = [r \in ReqIds |-> IdleReq]
  /\ faults = 0
  /\ users = InitUsers
  /\ areqs = [a \in ReqIds |-> IdleAuthReq]
  /\ clock = 0
  /\ freqs = [r \in ReqIds |-> IdleFireReq]
  /\ queries = InitQueries
  /\ files = InitFiles
  /\ rlog = << >>
  /\ dateNow = 0
  /\ userRequests = [u \in RateUsers |-> << >>]

\* the handler of request r is entered: slots are used in order
CanStart(r) ==
  /\ reqs[r].pc = "idle"
  /\ IF r = 1 THEN TRUE ELSE reqs[r - 1].pc # "idle"

At(r, op, pc) == reqs[r].op = op /\ reqs[r].pc = pc

\* a step of a chat or upload handler leaves the account tables alone
SetReq(r, rec) ==
  reqs' = [reqs EXCEPT ![r] = rec] /\ UNCHANGED authVars /\ UNCHANGED extVars

\* a step that writes no Chart row
Set(r, rec) == SetReq(r, rec) /\ UNCHANGED charts

\* the handler (or its detached continuation) returns: its locals are gone
Return(rec) ==
  [rec EXCEPT !.pc = "done", !.content = NoText, !.mtype = "",
              !.seen = NoChat, !.err = "", !.text = << >>]

\* res.status(s).json(...) and return
Respond(r, s) == Set(r, Return([reqs[r] EXCEPT !.status = s]))

\* a database call rejects (connection loss, timeout)
Fault == faults < MaxFaults /\ faults' = faults + 1

NoFault == faults' = faults

Begin(op, caller, chat) ==
  [IdleReq EXCEPT !.op = op, !.caller = caller, !.chat = chat, !.pc = "lookup"]

MsgRow(r, sender, content, type) ==
  [chatId |-> reqs[r].chat, sender |-> sender, content |-> content,
   type |-> type, req |-> r]

\* ------------------------------------------- sendMessage / submitQuery
SyncOps == {"sendMessage", "submitQuery"}

\* req.body.type of sendMessage: absent (the default "REGULAR") or one of
\* the message types
MessageTypes == {"REGULAR", "QUERY", "RESPONSE", "SYSTEM"}

BodyTypes(op) == IF op = "submitQuery" THEN {""} ELSE MessageTypes

\* the type of the user Message: submitQuery writes "QUERY", sendMessage the
\* type of the body
UserType(op, type) == IF op = "submitQuery" THEN "QUERY" ELSE type

\* entry: the content / prompt check; chat.findFirst returns;
\* message.create (user) is issued
StartSync(r, op) ==
  /\ CanStart(r)
  /\ \E u \in Callers, c \in ChatIds, content \in Contents,
        type \in BodyTypes(op) :
       LET req == Begin(op, u, c)
           chat == FindFirstChat(chats, c, u) IN
       IF content = NoText
       THEN NoFault /\ Set(r, Return([req EXCEPT !.status = 400]))
       ELSE \/ Fault /\ Set(r, Return([req EXCEPT !.status = 500]))
            \/ /\ NoFault
               /\ Set(r, IF chat = NoChat
                         THEN Return([req EXCEPT !.status = 404])
                         ELSE [req EXCEPT !.pc = "createUser",
                                          !.content = content,
                                          !.mtype = type])
  /\ UNCHANGED << chats, messages, documents, disk, objects >>

StartSend(r) == StartSync(r, "sendMessage")

StartQuery(r) == StartSync(r, "submitQuery")

\* a user insert that waits while another exchange of the chat is open
SendCreateUserLocked(r) ==
  /\ reqs[r].op \in SyncOps /\ reqs[r].pc = "createUser"
  /\ \A q \in ReqIds \ {r} :
       \/ reqs[q].chat # reqs[r].chat
       \/ reqs[q].pc = "done"
       \/ reqs[q].userIns = 0
  /\ NoFault
  /\ ChatExists(chats, reqs[r].chat)
  /\ messages' = Append(messages,
         MsgRow(r, "USER", << Lit(reqs[r].content) >>,
                UserType(reqs[r].op, reqs[r].mtype)))
  /\ Set(r, [reqs[r] EXCEPT !.pc = "ai", !.userIns = @ + 1])
  /\ UNCHANGED << chats, documents, disk, objects >>

\* message.create (user) returns; generateAIResponse calls the AI service
SendCreateUser(r) ==
  /\ reqs[r].op \in SyncOps /\ reqs[r].pc = "createUser"
  /\ \/ /\ Fault
        /\ Respond(r, 500)
        /\ UNCHANGED messages
     \/ /\ NoFault
        /\ IF ChatExists(chats, reqs[r].chat)
           THEN /\ messages' = Append(messages,
                     MsgRow(r, "USER", << Lit(reqs[r].content) >>,
                            UserType(reqs[r].op, reqs[r].mtype)))
                /\ Set(r, [reqs[r] EXCEPT !.pc = "ai", !.userIns = @ + 1])
           ELSE /\ Respond(r, 500)
                /\ UNCHANGED messages
  /\ UNCHANGED << chats, documents, disk, objects >>

\* aiService.processQuery settles
SendAI(r) ==
  /\ reqs[r].op \in SyncOps /\ reqs[r].pc = "ai"
  /\ \/ \E response \in AIResponses :
          Set(r, [reqs[r] EXCEPT !.pc = "createAsst", !.ai = "ok",
                                 !.text = FormatResponse(response)])
     \/ \E msg \in ErrMsgs :
          Set(r, [reqs[r] EXCEPT !.pc = "fallbackDocs", !.ai = "fail",
                                 !.err = msg])
  /\ UNCHANGED << chats, messages, documents, disk, objects, faults >>

\* generateAIResponse catch branch: document.findMany returns
SendFallbackDocs(r) ==
  /\ reqs[r].op \in SyncOps /\ reqs[r].pc = "fallbackDocs"
  /\ \/ /\ Fault
        /\ Respond(r, 500)
     \/ /\ NoFault
        /\ Set(r, [reqs[r] EXCEPT !.pc = "createAsst",
                   !.text = FallbackResponse(
                              DocsOfChat(documents, reqs[r].chat), reqs[r].err)])
  /\ UNCHANGED << chats, messages, documents, disk, objects >>

\* the two inserts as one transaction: a failed assistant insert takes the
\* user message with it
SendCreateAsstRollback(r) ==
  /\ reqs[r].op \in SyncOps /\ reqs[r].pc = "createAsst"
  /\ \/ /\ Fault
        /\ Respond(r, 500)
        /\ messages' = SelectSeq(messages, LAMBDA m : m.req # r)
     \/ /\ NoFault
        /\ IF ChatExists(chats, reqs[r].chat)
           THEN /\ messages' = Append(messages,
                     MsgRow(r, "ASSISTANT", reqs[r].text, "RESPONSE"))
                /\ Set(r, [reqs[r] EXCEPT !.pc = "update", !.asstIns = @ + 1])
           ELSE /\ Respond(r, 500)
                /\ UNCHANGED messages
  /\ UNCHANGED << chats, documents, disk, objects >>

\* message.create (assistant) returns; chat.update is issued
SendCreateAsst(r) ==
  /\ reqs[r].op \in SyncOps /\ reqs[r].pc = "createAsst"
  /\ \/ /\ Fault
        /\ Respond(r, 500)
        /\ UNCHANGED messages
     \/ /\ NoFault
        /\ IF ChatExists(chats, reqs[r].chat)
           THEN /\ messages' = Append(messages,
                     MsgRow(r, "ASSISTANT", reqs[r].text, "RESPONSE"))
                /\ Set(r, [reqs[r] EXCEPT !.pc = "update", !.asstIns = @ + 1])
           ELSE /\ Respond(r, 500)
                /\ UNCHANGED messages
  /\ UNCHANGED << chats, documents, disk, objects >>

\* an update that writes nothing
SetStateKeep(table, id, st) == table

\* an update that moves a chat on only from the state it was created in
SetStateFirst(table, id, st) ==
  { IF c.id = id /\ c.state = "UPLOAD" THEN [c EXCEPT !.state = st] ELSE c :
      c \in table }

\* chat.update({ data: { state } })
SetState(table, id, st) ==
  { IF c.id = id THEN [c EXCEPT !.state = st] ELSE c : c \in table }

\* the three writes in one transaction: a failed update takes the inserts
\* of the request back
SendUpdateRollback(r) ==
  /\ reqs[r].op \in SyncOps /\ reqs[r].pc = "update"
  /\ \/ /\ Fault
        /\ Respond(r, 500)
        /\ messages' = SelectSeq(messages, LAMBDA m : m.req # r)
        /\ UNCHANGED chats
     \/ /\ NoFault
        /\ ChatExists(chats, reqs[r].chat)
        /\ chats' = SetState(chats, reqs[r].chat, "CHAT")
        /\ Respond(r, 200)
        /\ UNCHANGED messages
  /\ UNCHANGED << documents, disk, objects >>

\* chat.update({ state: "CHAT" }) returns; res.json
SendUpdate(r) ==
  /\ reqs[r].op \in SyncOps /\ reqs[r].pc = "update"
  /\ \/ /\ Fault
        /\ Respond(r, 500)
        /\ UNCHANGED chats
     \/ /\ NoFault
        /\ IF ChatExists(chats, reqs[r].chat)
           THEN /\ chats' = SetState(chats, reqs[r].chat, "CHAT")
                /\ Respond(r, 200)
           ELSE /\ Respond(r, 500)
                /\ UNCHANGED chats
  /\ UNCHANGED << messages, documents, disk, objects >>

\* ------------------------------------------------ addMessage (detached)
\* chat.findFirst returns; message.create (user) is issued, and rejects at
\* once when text is undefined
StartAdd(r) ==
  /\ CanStart(r)
  /\ \E u \in Callers, c \in ChatIds, text \in Contents :
       LET req == Begin("addMessage", u, c)
           chat == FindFirstChat(chats, c, u) IN
       \/ Fault /\ Set(r, Return([req EXCEPT !.status = 500]))
       \/ /\ NoFault
          /\ Set(r, IF chat = NoChat THEN Return([req EXCEPT !.status = 404])
                    ELSE IF text = NoText
                    THEN Return([req EXCEPT !.status = 500])
                    ELSE [req EXCEPT !.pc = "createUser", !.content = text])
  /\ UNCHANGED << chats, messages, documents, disk, objects >>

\* the 201 sent without awaiting message.create
AddCreateUserUnawaited(r) ==
  /\ At(r, "addMessage", "createUser")
  /\ NoFault
  /\ Set(r, [reqs[r] EXCEPT !.pc = "aiPending", !.status = 201,
                            !.cont = "pending"])
  /\ UNCHANGED << chats, messages, documents, disk, objects >>

\* message.create (user) returns; axios.post is started with its .then and
\* .catch, and the 201 is sent without waiting for it
AddCreateUser(r) ==
  /\ At(r, "addMessage", "createUser")
  /\ \/ /\ Fault
        /\ Respond(r, 500)
        /\ UNCHANGED messages
     \/ /\ NoFault
        /\ IF ChatExists(chats, reqs[r].chat)
           THEN /\ messages' = Append(messages,
                     MsgRow(r, "user", << Lit(reqs[r].content) >>, ""))
                /\ Set(r, [reqs[r] EXCEPT !.pc = "aiPending", !.status = 201,
                           !.userIns = @ + 1, !.cont = "pending"])
           ELSE /\ Respond(r, 500)
                /\ UNCHANGED messages
  /\ UNCHANGED << chats, documents, disk, objects >>

\* the axios promise settles: .then issues message.create with the answer
\* (rejecting at once when the answer is undefined), .catch issues
\* message.create with the fixed text
AddAI(r) ==
  /\ At(r, "addMessage", "aiPending")
  /\ \/ \E answer \in RestAnswers :
          Set(r, [reqs[r] EXCEPT !.ai = "ok", !.text = << Lit(answer) >>,
                  !.pc = IF answer = NoText THEN "catchCreate"
                         ELSE "thenCreate"])
     \/ Set(r, [reqs[r] EXCEPT !.ai = "fail", !.pc = "catchCreate"])
  /\ UNCHANGED << chats, messages, documents, disk, objects, faults >>

\* a .then whose insert is followed by the .catch insert as well
AddThenCreateBoth(r) ==
  /\ At(r, "addMessage", "thenCreate")
  /\ NoFault
  /\ ChatExists(chats, reqs[r].chat)
  /\ messages' = Append(Append(messages,
                     MsgRow(r, "assistant", reqs[r].text, "")),
                     MsgRow(r, "assistant", UnavailableText, ""))
  /\ Set(r, Return([reqs[r] EXCEPT !.asstIns = @ + 2, !.cont = "settled"]))
  /\ UNCHANGED << chats, documents, disk, objects >>

\* message.create inside .then returns; a rejection falls through to .catch
AddThenCreate(r) ==
  /\ At(r, "addMessage", "thenCreate")
  /\ \/ /\ Fault
        /\ Set(r, [reqs[r] EXCEPT !.pc = "catchCreate"])
        /\ UNCHANGED messages
     \/ /\ NoFault
        /\ IF ChatExists(chats, reqs[r].chat)
           THEN /\ messages' = Append(messages,
                     MsgRow(r, "assistant", reqs[r].text, ""))
                /\ Set(r, Return([reqs[r] EXCEPT !.asstIns = @ + 1,
                                                  !.cont = "settled"]))
           ELSE /\ Set(r, [reqs[r] EXCEPT !.pc = "catchCreate"])
                /\ UNCHANGED messages
  /\ UNCHANGED << chats, documents, disk, objects >>

\* a .catch that writes the fixed text over the request's stored messages
AddCatchCreateEdits(r) ==
  /\ At(r, "addMessage", "catchCreate")
  /\ NoFault
  /\ messages' = [i \in DOMAIN messages |->
                    IF messages[i].req = r
                    THEN [messages[i] EXCEPT !.content = UnavailableText]
                    ELSE messages[i]]
  /\ Set(r, Return([reqs[r] EXCEPT !.cont = "settled"]))
  /\ UNCHANGED << chats, documents, disk, objects >>

\* message.create inside .catch returns; its rejection has no handler
AddCatchCreate(r) ==
  /\ At(r, "addMessage", "catchCreate")
  /\ \/ /\ Fault
        /\ Set(r, Return([reqs[r] EXCEPT !.cont = "unhandled"]))
        /\ UNCHANGED messages
     \/ /\ NoFault
        /\ IF ChatExists(chats, reqs[r].chat)
           THEN /\ messages' = Append(messages,
                     MsgRow(r, "assistant", UnavailableText, ""))
                /\ Set(r, Return([reqs[r] EXCEPT !.asstIns = @ + 1,
                                                  !.cont = "settled"]))
           ELSE /\ Set(r, Return([reqs[r] EXCEPT !.cont = "unhandled"]))
                /\ UNCHANGED messages
  /\ UNCHANGED << chats, documents, disk, objects >>

\* -------------------------------------------------------------- deleteChat
\* chat.findFirst returns; chat.delete is issued
StartDelete(r) ==
  /\ CanStart(r)
  /\ \E u \in Callers, c \in ChatIds :
       LET req == Begin("deleteChat", u, c)
           chat == FindFirstChat(chats, c, u) IN
       \/ Fault /\ Set(r, Return([req EXCEPT !.status = 500]))
       \/ /\ NoFault
          /\ Set(r, IF chat = NoChat THEN Return([req EXCEPT !.status = 404])
                    ELSE [req EXCEPT !.pc = "delete"])
  /\ UNCHANGED << chats, messages, documents, disk, objects >>

\* chat.delete returns: the chat row and, by cascade, its messages,
\* documents and charts are gone
DeleteChat(r) ==
  /\ At(r, "deleteChat", "delete")
  /\ \/ /\ Fault
        /\ Respond(r, 500)
        /\ UNCHANGED tables
     \/ /\ NoFault
        /\ IF ChatExists(chats, reqs[r].chat)
           THEN /\ chats' = { c \in chats : c.id # reqs[r].chat }
                /\ messages' = CascadeDeleteSeq(messages, reqs[r].chat)
                /\ documents' = CascadeDeleteSeq(documents, reqs[r].chat)
                /\ charts' = CascadeDeleteSeq(charts, reqs[r].chat)
                /\ SetReq(r, Return([reqs[r] EXCEPT !.status = 200]))
           ELSE /\ Respond(r, 500)
                /\ UNCHANGED tables
  /\ UNCHANGED << disk, objects >>

\* ------------------------------------------------------------- createChart
\* the check of the body; chat.findFirst returns; axios.post(/generate-chart)
\* is issued
StartCreateChart(r) ==
  /\ CanStart(r)
  /\ \E u \in Callers, c \in ChatIds, prompt \in Contents :
       LET req == Begin("createChart", u, c)
           chat == FindFirstChat(chats, c, u) IN
       IF prompt = NoText
       THEN NoFault /\ Set(r, Return([req EXCEPT !.status = 400]))
       ELSE \/ Fault /\ Set(r, Return([req EXCEPT !.status = 500]))
            \/ /\ NoFault
               /\ Set(r, IF chat = NoChat
                         THEN Return([req EXCEPT !.status = 404])
                         ELSE [req EXCEPT !.pc = "generate"])
  /\ UNCHANGED << chats, messages, documents, disk, objects >>

\* error.response.status of a rejected axios.post: 0 stands for a rejection
\* without a response (timeout, connection refused)
RejectStatuses == {0, 422, 503}

\* error.response?.status || 500
CatchStatus(responseStatus) ==
  IF responseStatus = 0 THEN 500 ELSE responseStatus

\* axios.post settles: with chart data prisma.chart.create is issued; an
\* answer without data throws an Error, and that or a rejection is answered
\* by the catch block with the status of the AI service's response, if any
CreateChartAI(r) ==
  /\ At(r, "createChart", "generate")
  /\ \/ Set(r, [reqs[r] EXCEPT !.pc = "chartCreate", !.ai = "ok"])
     \/ Set(r, Return([reqs[r] EXCEPT !.status = CatchStatus(0),
                                      !.ai = "nodata"]))
     \/ \E responseStatus \in RejectStatuses :
          Set(r, Return([reqs[r] EXCEPT
                           !.status = CatchStatus(responseStatus),
                           !.ai = "fail"]))
  /\ UNCHANGED << chats, messages, documents, disk, objects, faults >>

\* prisma.chart.create returns
CreateChart(r) ==
  /\ At(r, "createChart", "chartCreate")
  /\ \/ /\ Fault
        /\ Respond(r, 500)
     \/ /\ NoFault
        /\ IF ChatExists(chats, reqs[r].chat)
           THEN /\ charts' = Append(charts, [chatId |-> reqs[r].chat,
                                             req |-> r])
                /\ SetReq(r, Return([reqs[r] EXCEPT !.status = 201]))
           ELSE Respond(r, 500)
  /\ UNCHANGED << chats, messages, documents, disk, objects >>

\* ------------------------------------------------------------ getChartById
\* the two files that define getChartById
ChartControllers == {"chartController.js", "part_012"}

NoChart == [chatId |-> 0, req |-> 0]

\* prisma.chart.findFirst({ where: { id, userId } }): a chart carries the id
\* of the createChart request that made it and the user of that request
FindFirstChart(rows, id, userId) ==
  IF \E i \in 1..Len(rows) :
       rows[i].req = id /\ reqs[rows[i].req].caller = userId
  THEN rows[CHOOSE i \in 1..Len(rows) :
              rows[i].req = id /\ reqs[rows[i].req].caller = userId]
  ELSE NoChart

\* the handler is entered; prisma.chart.findFirst is issued
StartGetChart(r) ==
  /\ CanStart(r)
  /\ \E u \in Callers, id \in ReqIds, file \in ChartControllers :
       Set(r, [Begin("getChartById", u, 0) EXCEPT
                 !.route = file, !.file = id, !.pc = "findFirst"])
  /\ UNCHANGED << chats, messages, documents, disk, objects, faults >>

\* prisma.chart.findFirst returns. part_012 tests the chart and answers 404
\* or 200 with parseChart(chart); chartController.js tests `chat`, a name
\* that is not defined in the file: the ReferenceError is answered by the
\* catch block
GetChartById(r) ==
  /\ At(r, "getChartById", "findFirst")
  /\ \/ /\ Fault
        /\ Respond(r, 500)
     \/ /\ NoFault
        /\ LET chart == FindFirstChart(charts, reqs[r].file, reqs[r].caller) IN
           IF reqs[r].route = "chartController.js"
           THEN Respond(r, 500)
           ELSE IF chart = NoChart
                THEN Respond(r, 404)
                ELSE Respond(r, 200)
  /\ UNCHANGED << chats, messages, documents, disk, objects >>

\* ------------------------------------------------------------- deleteChart
\* the handler is entered; prisma.chart.findFirst is issued
StartDeleteChart(r) ==
  /\ CanStart(r)
  /\ \E u \in Callers, id \in ReqIds :
       Set(r, [Begin("deleteChart", u, 0) EXCEPT
                 !.file = id, !.pc = "findFirst"])
  /\ UNCHANGED << chats, messages, documents, disk, objects, faults >>

\* prisma.chart.findFirst returns: 404, or prisma.chart.delete is issued
DeleteChartFind(r) ==
  /\ At(r, "deleteChart", "findFirst")
  /\ \/ /\ Fault
        /\ Respond(r, 500)
     \/ /\ NoFault
        /\ IF FindFirstChart(charts, reqs[r].file, reqs[r].caller) = NoChart
           THEN Respond(r, 404)
           ELSE Set(r, [reqs[r] EXCEPT !.pc = "delete"])
  /\ UNCHANGED << chats, messages, documents, disk, objects >>

\* prisma.chart.delete returns: the row is gone; it rejects when the row has
\* been deleted in the meantime
DeleteChartRow(r) ==
  /\ At(r, "deleteChart", "delete")
  /\ \/ /\ Fault
        /\ Respond(r, 500)
     \/ /\ NoFault
        /\ IF \E i \in 1..Len(charts) : charts[i].req = reqs[r].file
           THEN /\ charts' = SelectSeq(charts,
                                LAMBDA c : c.req # reqs[r].file)
                /\ SetReq(r, Return([reqs[r] EXCEPT !.status = 200]))
           ELSE Respond(r, 500)
  /\ UNCHANGED << chats, messages, documents, disk, objects >>

\* -------------------------------------------------------------- updateChat
Or(a, b) == IF a # "" THEN a ELSE b

\* chat.findFirst returns; chat.update is issued
StartUpdate(r) ==
  /\ CanStart(r)
  /\ \E u \in Callers, c \in ChatIds, body \in UpdateBodies :
       LET req == Begin("updateChat", u, c)
           chat == FindFirstChat(chats, c, u) IN
       \/ Fault /\ Set(r, Return([req EXCEPT !.status = 500]))
       \/ /\ NoFault
          /\ Set(r, IF chat = NoChat THEN Return([req EXCEPT !.status = 404])
                    ELSE [req EXCEPT !.pc = "write", !.upd = body,
                                     !.seen = chat])
  /\ UNCHANGED << chats, messages, documents, disk, objects >>

\* an update whose data holds the supplied fields only: the absent ones keep
\* the values of the row
UpdateChatPartial(r) ==
  /\ At(r, "updateChat", "write")
  /\ \/ /\ Fault
        /\ Respond(r, 500)
        /\ UNCHANGED chats
     \/ /\ NoFault
        /\ IF ChatExists(chats, reqs[r].chat)
           THEN /\ chats' =
                     { IF c.id = reqs[r].chat
                       THEN [c EXCEPT
                              !.status = Or(reqs[r].upd.status, c.status),
                              !.title = Or(reqs[r].upd.title, c.title),
                              !.state = Or(reqs[r].upd.state, c.state)]
                       ELSE c : c \in chats }
                /\ Respond(r, 200)
           ELSE /\ Respond(r, 500)
                /\ UNCHANGED chats
  /\ UNCHANGED << messages, documents, disk, objects >>

\* chat.update returns: all three fields are written, absent ones with the
\* values read by the lookup
UpdateChat(r) ==
  /\ At(r, "updateChat", "write")
  /\ \/ /\ Fault
        /\ Respond(r, 500)
        /\ UNCHANGED chats
     \/ /\ NoFault
        /\ IF ChatExists(chats, reqs[r].chat)
           THEN /\ chats' =
                     { IF c.id = reqs[r].chat
                       THEN [c EXCEPT
                              !.status = Or(reqs[r].upd.status, reqs[r].seen.status),
                              !.title = Or(reqs[r].upd.title, reqs[r].seen.title),
                              !.state = Or(reqs[r].upd.state, reqs[r].seen.state)]
                       ELSE c : c \in chats }
                /\ Respond(r, 200)
           ELSE /\ Respond(r, 500)
                /\ UNCHANGED chats
  /\ UNCHANGED << messages, documents, disk, objects >>

\* -------------------------------------------------------------- createChat
\* req.body.title: absent, or a title
CreateTitles == {"", "Report"}

\* the id the autoincrement column gives the next Chat row: ids of deleted
\* rows are not given again
NextChatId ==
  Cardinality(InitChats) + 1
  + Cardinality({ q \in ReqIds : /\ reqs[q].op = "createChat"
                                  /\ reqs[q].status = 201 })

\* createChat requests that have made, or may still make, a row
Creating ==
  { q \in ReqIds : reqs[q].op = "createChat" /\ reqs[q].status \in {0, 201} }

\* entry: chat.create is issued
StartCreateChat(r) ==
  /\ CanStart(r)
  /\ Cardinality(InitChats) + Cardinality(Creating) < MaxChats
  /\ \E u \in Callers, title \in CreateTitles :
       Set(r, [Begin("createChat", u, 0)
                 EXCEPT !.pc = "create", !.upd = [NoUpd EXCEPT !.title = title]])
  /\ UNCHANGED << chats, messages, documents, disk, objects, faults >>

\* chat.create returns: the new row has the title of the body or "New Chat",
\* state UPLOAD and the default status; it is the body of the 201
CreateChatRow(r) ==
  /\ At(r, "createChat", "create")
  /\ \/ /\ Fault
        /\ Respond(r, 500)
        /\ UNCHANGED chats
     \/ /\ NoFault
        /\ chats' = chats \cup
             { [id |-> NextChatId, userId |-> reqs[r].caller,
                title |-> Or(reqs[r].upd.title, "New Chat"),
                status |-> "NONE", state |-> "UPLOAD"] }
        /\ Set(r, Return([reqs[r] EXCEPT !.status = 201,
                                          !.chat = NextChatId]))
  /\ UNCHANGED << messages, documents, disk, objects >>

\* --------------------------- getChatFiles / getChatMessages / shareChat
ReadOps == {"getChatFiles", "getChatMessages", "shareChat"}

\* chat.findFirst returns; shareChat answers, the others go on reading
StartRead(r) ==
  /\ CanStart(r)
  /\ \E op \in ReadOps, u \in Callers, c \in ChatIds :
       LET req == Begin(op, u, c)
           chat == FindFirstChat(chats, c, u) IN
       \/ Fault /\ Set(r, Return([req EXCEPT !.status = 500]))
       \/ /\ NoFault
          /\ Set(r, IF chat = NoChat THEN Return([req EXCEPT !.status = 404])
                    ELSE IF op = "shareChat"
                    THEN Return([req EXCEPT !.status = 200])
                    ELSE [req EXCEPT
                            !.pc = IF op = "getChatMessages" THEN "readMsgs"
                                   ELSE "readDocs"])
  /\ UNCHANGED << chats, messages, documents, disk, objects >>

\* getChatMessages: message.findMany returns
ReadMessages(r) ==
  /\ At(r, "getChatMessages", "readMsgs")
  /\ \/ Fault /\ Respond(r, 500)
     \/ NoFault /\ Set(r, [reqs[r] EXCEPT !.pc = "readDocs"])
  /\ UNCHANGED << chats, messages, documents, disk, objects >>

\* document.findMany returns; res.json
ReadDocuments(r) ==
  /\ reqs[r].op \in ReadOps /\ reqs[r].pc = "readDocs"
  /\ \/ Fault /\ Respond(r, 500)
     \/ NoFault /\ Respond(r, 200)
  /\ UNCHANGED << chats, messages, documents, disk, objects >>

\* ---------------------------------------------------------------- uploads
\* the multer instances of the upload routes
UploadFileRoutes == {"uploadRoutes", "uploadRoutesFiltered"}
UploadDocRoutes == {"chatsMemory", "chatsDisk"}

FileSizeLimitOf(route) ==
  CASE route = "uploadRoutes" -> NoLimit
    [] route = "uploadRoutesFiltered" -> FileSizeLimit10MB
    [] OTHER -> FileSizeLimit15MB

StorageOf(route) == IF route = "chatsDisk" THEN "disk" ELSE "memory"

AllowedTypes == {"application/pdf"}
MimeTypes == {"application/pdf", "image/png"}

fileFilter(route, mime) ==
  route = "uploadRoutesFiltered" => mime \in AllowedTypes

\* multer: "ok", or the error it passes to next()
Multer(route, size, mime) ==
  IF size # 0 /\ ~fileFilter(route, mime) THEN "INVALID_TYPE"
  ELSE IF FileSizeLimitOf(route) # NoLimit /\ size > FileSizeLimitOf(route)
       THEN "LIMIT_FILE_SIZE"
  ELSE "ok"

\* the error handler of the app the route is mounted in
ErrorStatus(route, code) ==
  IF route \in UploadDocRoutes THEN 500
  ELSE IF code = "LIMIT_FILE_SIZE" THEN 413 ELSE 500

DocRow(r, path) ==
  [chatId |-> reqs[r].chat, name |-> "a.pdf", filePath |-> path,
   size |-> reqs[r].file, processed |-> FALSE, req |-> r]

\* upload.single("file"), then uploadFile: chat.findFirst returns (it is
\* awaited outside the try block: a rejection is not answered) and
\* s3.upload is issued
StartUploadFile(r) ==
  /\ CanStart(r)
  /\ \E route \in UploadFileRoutes, u \in Callers, c \in ChatIds,
        size \in {0} \cup FileSizes :
     \E mime \in IF route = "uploadRoutesFiltered" THEN MimeTypes
                  ELSE AllowedTypes :
       LET req == [Begin("uploadFile", u, c) EXCEPT
                     !.route = route, !.file = size, !.mime = mime]
           m == Multer(route, size, mime)
           chat == FindFirstChat(chats, c, u) IN
       IF m # "ok"
       THEN NoFault /\ Set(r, Return([req EXCEPT !.status = ErrorStatus(route, m)]))
       ELSE IF size = 0
       THEN NoFault /\ Set(r, Return([req EXCEPT !.status = 400]))
       ELSE \/ Fault /\ Set(r, Return([req EXCEPT !.cont = "unhandled"]))
            \/ /\ NoFault
               /\ Set(r, IF chat = NoChat
                         THEN Return([req EXCEPT !.status = 403])
                         ELSE [req EXCEPT !.pc = "s3"])
  /\ UNCHANGED << chats, messages, documents, disk, objects >>

\* s3.upload returns; document.create is issued
UploadFileStore(r) ==
  /\ At(r, "uploadFile", "s3")
  /\ \/ /\ Fault
        /\ Respond(r, 500)
        /\ UNCHANGED objects
     \/ /\ NoFault
        /\ objects' = objects \cup {r}
        /\ Set(r, [reqs[r] EXCEPT !.pc = "docCreate"])
  /\ UNCHANGED << chats, messages, documents, disk >>

\* document.create returns; chat.update (timestamp) is issued
UploadFileCreate(r) ==
  /\ At(r, "uploadFile", "docCreate")
  /\ \/ /\ Fault
        /\ Respond(r, 500)
        /\ UNCHANGED documents
     \/ /\ NoFault
        /\ IF ChatExists(chats, reqs[r].chat)
           THEN /\ documents' = Append(documents, DocRow(r, "r2"))
                /\ Set(r, [reqs[r] EXCEPT !.pc = "touch"])
           ELSE /\ Respond(r, 500)
                /\ UNCHANGED documents
  /\ UNCHANGED << chats, messages, disk, objects >>

\* chat.update returns; res.status(200)
UploadFileTouch(r) ==
  /\ At(r, "uploadFile", "touch")
  /\ \/ Fault /\ Respond(r, 500)
     \/ /\ NoFault
        /\ Respond(r, IF ChatExists(chats, reqs[r].chat) THEN 200 ELSE 500)
  /\ UNCHANGED << chats, messages, documents, disk, objects >>

\* upload.single("document") then uploadDocumentAndTriggerWorkflow up to
\* its first await; disk storage has written the temporary file
StartUploadDoc(r) ==
  /\ CanStart(r)
  /\ \E route \in UploadDocRoutes, u \in Callers, c \in ChatIds,
        size \in {0} \cup FileSizes :
       LET req == [Begin("uploadDocument", u, c) EXCEPT
                     !.route = route, !.file = size,
                     !.mime = "application/pdf"]
           m == Multer(route, size, "application/pdf") IN
       IF m # "ok"
       THEN /\ Set(r, Return([req EXCEPT !.status = ErrorStatus(route, m)]))
            /\ UNCHANGED disk
       ELSE IF size = 0
       THEN /\ Set(r, Return([req EXCEPT !.status = 400]))
            /\ UNCHANGED disk
       ELSE /\ Set(r, req)
            /\ disk' = IF StorageOf(route) = "disk" THEN disk \cup {r}
                       ELSE disk
  /\ UNCHANGED << chats, messages, documents, objects, faults >>

\* the ownership check without the fs.unlinkSync before the 404
UploadDocLookupNoUnlink(r) ==
  /\ At(r, "uploadDocument", "lookup")
  /\ NoFault
  /\ LET chat == FindFirstChat(chats, reqs[r].chat, reqs[r].caller) IN
       IF chat = NoChat THEN Respond(r, 404)
       ELSE Set(r, [reqs[r] EXCEPT !.pc = "docCreate"])
  /\ UNCHANGED << chats, messages, documents, disk, objects >>

\* chat.findFirst returns.  Not owned: fs.unlinkSync(req.file.path), which
\* throws when the storage gave the file no path.  Owned: document.create
\* is issued, and rejects at once when filePath is undefined.
UploadDocLookup(r) ==
  /\ At(r, "uploadDocument", "lookup")
  /\ \/ /\ Fault
        /\ Respond(r, 500)
        /\ UNCHANGED disk
     \/ /\ NoFault
        /\ LET chat == FindFirstChat(chats, reqs[r].chat, reqs[r].caller) IN
           IF chat = NoChat
           THEN IF StorageOf(reqs[r].route) = "disk"
                THEN /\ disk' = disk \ {r}
                     /\ Respond(r, 404)
                ELSE /\ Respond(r, 500)
                     /\ UNCHANGED disk
           ELSE /\ UNCHANGED disk
                /\ IF StorageOf(reqs[r].route) = "disk"
                   THEN Set(r, [reqs[r] EXCEPT !.pc = "docCreate"])
                   ELSE Respond(r, 500)
  /\ UNCHANGED << chats, messages, documents, objects >>

\* document.create returns; the AI service is asked to process the file
UploadDocCreate(r) ==
  /\ At(r, "uploadDocument", "docCreate")
  /\ \/ /\ Fault
        /\ Respond(r, 500)
        /\ UNCHANGED documents
     \/ /\ NoFault
        /\ IF ChatExists(chats, reqs[r].chat)
           THEN /\ documents' = Append(documents, DocRow(r, "disk"))
                /\ Set(r, [reqs[r] EXCEPT !.pc = "process"])
           ELSE /\ Respond(r, 500)
                /\ UNCHANGED documents
  /\ UNCHANGED << chats, messages, disk, objects >>

\* axios.post(/process-document) settles
UploadDocProcess(r) ==
  /\ At(r, "uploadDocument", "process")
  /\ \/ Set(r, Return([reqs[r] EXCEPT !.status = 201, !.ai = "ok"]))
     \/ Set(r, Return([reqs[r] EXCEPT !.status = 500, !.ai = "fail"]))
  /\ UNCHANGED << chats, messages, documents, disk, objects, faults >>

\* ----------------------------------------------------------------- accounts
UserIds == 1..(Cardinality(InitUsers) + MaxReqs)

RegisterEmails ==
  { << Lit("john.doe@example.com") >>, << Lit("new@example.com") >>,
    << Lit("other@example.com") >> }

RegisterUsernames == { << Lit("johndoe") >>, << Lit("newuser") >> }

\* values of Date.now(), counted in seconds to fit 32-bit integers
Times == {1700000000}

\* the Authorization header of a request: none, one that does not start with
\* "Bearer " (malformed), one that starts with "Bearer " and goes on with
\* more than one word, as "Bearer a b" (extra), or "Bearer x" with x a string
\* that is no signed JWT (garbage) or a signed token for a user id that is
\* expired or still valid; requests carry no accessToken cookie
AccessTokens ==
  { NoToken, [kind |-> "malformed", userId |-> 0],
    [kind |-> "extra", userId |-> 0],
    [kind |-> "garbage", userId |-> 0], [kind |-> "expired", userId |-> 1] }
  \cup { [kind |-> "valid", userId |-> u] : u \in 1..(Cardinality(InitUsers) + 1) }

NoUser ==
  [id |-> 0, email |-> << >>, username |-> << >>, isActive |-> FALSE,
   isVerified |-> FALSE, password |-> hashPassword(""),
   emailVerificationToken |-> Null, emailVerificationExpires |-> Null,
   passwordResetToken |-> Null, passwordResetExpires |-> Null]

\* extractToken: the token of a "Bearer x" header, null for any other header
\* (the header split at blanks does not give the two parts "Bearer" and x)
extractToken(authHeader) ==
  IF authHeader.kind \in {"none", "malformed", "extra"}
  THEN NoToken ELSE authHeader

\* prisma.user.findUnique({ where: { id } })
FindUniqueUser(table, id) ==
  IF \E u \in table : u.id = id
  THEN CHOOSE u \in table : u.id = id
  ELSE NoUser

\* prisma.user.findFirst({ where: { OR: [{ email }, { username }] } })
FindFirstUser(table, email, username) ==
  LET found == { u \in table : u.email = email \/ u.username = username } IN
  IF found = {} THEN NoUser
  ELSE CHOOSE u \in found : \A v \in found : u.id <= v.id

\* jwt.verify: true when the signature, the claims and the expiry are good;
\* a string with a blank in it is no signed token
verifyAccessToken(token) == token.kind = "valid"

Verdict(status, code, user) == [status |-> status, code |-> code, user |-> user]

\* the authenticate middleware; code "next" stands for next()
authenticate(authHeader, table) ==
  LET token == extractToken(authHeader) IN
  IF token = NoToken THEN Verdict(401, "NO_TOKEN", NoUser)
  ELSE IF ~verifyAccessToken(token) THEN Verdict(401, "INVALID_TOKEN", NoUser)
  ELSE LET user == FindUniqueUser(table, token.userId) IN
       IF user = NoUser THEN Verdict(401, "USER_NOT_FOUND", NoUser)
       ELSE IF ~user.isActive THEN Verdict(401, "ACCOUNT_DEACTIVATED", NoUser)
       ELSE Verdict(0, "next", user)

\* authenticate when prisma.user.findUnique rejects: its catch block answers
\* 500 without a code
authenticateRejected == Verdict(500, "", NoUser)

\* what authenticate can come to: findUnique is reached only by a token that
\* verifies, and it returns or rejects
Authenticated(authHeader, table) ==
  { authenticate(authHeader, table) }
  \cup IF verifyAccessToken(extractToken(authHeader))
       THEN { authenticateRejected } ELSE {}

\* the requireVerification middleware, given req.user
requireVerification(user) ==
  IF user = NoUser THEN Verdict(401, "AUTHENTICATION_REQUIRED", NoUser)
  ELSE IF ~user.isVerified
  THEN Verdict(403, "EMAIL_VERIFICATION_REQUIRED", NoUser)
  ELSE Verdict(0, "next", user)

\* `deleted_${Date.now()}_${name}`
DeletedName(now, name) ==
  << Lit("deleted_"), [t |-> "%d", n |-> now], Lit("_") >> \o name

\* an update that clears isActive and leaves the names
DeactivateKeepNames(table, user, now) ==
  { IF u.id = user.id THEN [u EXCEPT !.isActive = FALSE] ELSE u : u \in table }

\* prisma.user.update of the DELETE /account handler
Deactivate(table, user, now) ==
  { IF u.id = user.id
    THEN [u EXCEPT !.isActive = FALSE,
                   !.email = DeletedName(now, user.email),
                   !.username = DeletedName(now, user.username)]
    ELSE u : u \in table }

CanStartAuth(a) ==
  /\ areqs[a].pc = "idle"
  /\ IF a = 1 THEN TRUE ELSE areqs[a - 1].pc # "idle"

AuthAt(a, op, pc) == areqs[a].op = op /\ areqs[a].pc = pc

\* a step of an account handler leaves the chat tables alone
SetAuth(a, rec) ==
  /\ areqs' = [areqs EXCEPT ![a] = rec]
  /\ UNCHANGED chatVars /\ UNCHANGED clock /\ UNCHANGED extVars

\* the response is sent and the handler returns: its locals are gone
Answer(rec, status, code) ==
  [rec EXCEPT !.pc = "done", !.status = status, !.code = code, !.user = 0,
              !.expires = Null, !.hash = Null, !.asOf = Null]

\* the codes errorHandler gives a Prisma call that is rejected for another
\* reason than a violated constraint; all are answered 500
DatabaseErrors == {"DATABASE_ERROR", "SCHEMA_ERROR",
                   "DATABASE_CONNECTION_ERROR", "INTERNAL_ERROR"}

\* POST /register: validate, then register up to the answer of findFirst,
\* after which hashPassword is awaited; or findFirst is rejected and the
\* error handler answers 500
StartRegister(a) ==
  /\ CanStartAuth(a)
  /\ \E email \in RegisterEmails, username \in RegisterUsernames :
       LET req == [IdleAuthReq EXCEPT !.op = "register", !.email = email,
                                      !.username = username]
           existingUser == FindFirstUser(users, email, username) IN
       \/ SetAuth(a, IF existingUser = NoUser
                     THEN [req EXCEPT !.pc = "hash"]
                     ELSE IF existingUser.email = email
                     THEN Answer(req, 409, "EMAIL_EXISTS")
                     ELSE IF existingUser.username = username
                     THEN Answer(req, 409, "USERNAME_EXISTS")
                     ELSE [req EXCEPT !.pc = "hash"])
       \/ \E code \in DatabaseErrors : SetAuth(a, Answer(req, 500, code))
  /\ UNCHANGED users

\* register: hashPassword returns; the verification token is drawn and its
\* expiry computed from Date.now(); prisma.user.create is issued
RegisterHash(a) ==
  /\ AuthAt(a, "register", "hash")
  /\ SetAuth(a, [areqs[a] EXCEPT !.pc = "create",
                                 !.expires = << clock + VerificationTTL >>])
  /\ UNCHANGED users

\* crypto.randomBytes(32).toString("hex") of request a: no two requests draw
\* the same bytes
RandomToken(a) == [t |-> "randomBytes", n |-> a]

\* the unique index on User.email turns the row down
EmailTaken(table, email) == \E u \in table : u.email = email

\* the unique index on User.username turns the row down
UsernameTaken(table, username) == \E u \in table : u.username = username

\* prisma.user.create raises P2002: a unique index of the table is violated
P2002(table, email, username) ==
  EmailTaken(table, email) \/ UsernameTaken(table, username)

\* handlePrismaError for a unique constraint violation
DuplicateField == [status |-> 409, code |-> "DUPLICATE_FIELD"]

\* the row prisma.user.create inserts for register
NewUser(table, a, email, username, password, expires) ==
  [id |-> Cardinality(table) + 1, email |-> email, username |-> username,
   isActive |-> TRUE, isVerified |-> FALSE,
   password |-> hashPassword(password),
   emailVerificationToken |-> << RandomToken(a) >>,
   emailVerificationExpires |-> expires,
   passwordResetToken |-> Null, passwordResetExpires |-> Null]

\* generateTokens(user), res.cookie("refreshToken", ...) and the 201 with the
\* access token and the verification token
RegisterAnswer(rec, user) ==
  [Answer(rec, 201, "") EXCEPT !.meta = user.emailVerificationToken,
                               !.access = user.id, !.cookie = user.id]

RegisterCreateUnchecked(a) ==
  /\ AuthAt(a, "register", "create")
  /\ LET user == NewUser(users, a, areqs[a].email, areqs[a].username,
                         "Password1!", areqs[a].expires) IN
     /\ users' = users \cup { user }
     /\ SetAuth(a, RegisterAnswer(areqs[a], user))

\* register: prisma.user.create settles. It returns the new row; or a unique
\* index of the table rejects a duplicate and the error handler answers 409;
\* or the call is rejected for another reason and the error handler answers
\* 500
RegisterCreate(a) ==
  /\ AuthAt(a, "register", "create")
  /\ \/ IF P2002(users, areqs[a].email, areqs[a].username)
        THEN /\ SetAuth(a, Answer(areqs[a], DuplicateField.status,
                                   DuplicateField.code))
             /\ UNCHANGED users
        ELSE LET user == NewUser(users, a, areqs[a].email, areqs[a].username,
                                 "Password1!", areqs[a].expires) IN
             /\ users' = users \cup { user }
             /\ SetAuth(a, RegisterAnswer(areqs[a], user))
     \/ /\ \E code \in DatabaseErrors : SetAuth(a, Answer(areqs[a], 500, code))
        /\ UNCHANGED users

\* GET /me: authenticate up to the answer of findUnique, then getMe issues
\* its own findUnique
StartMe(a) ==
  /\ CanStartAuth(a)
  /\ \E token \in AccessTokens :
       \E auth \in Authenticated(token, users) :
         LET req == [IdleAuthReq EXCEPT !.op = "getMe", !.token = token] IN
         SetAuth(a, IF auth.code # "next"
                    THEN Answer(req, auth.status, auth.code)
                    ELSE [req EXCEPT !.pc = "me"])
  /\ UNCHANGED users

\* getMe: prisma.user.findUnique returns, or rejects and the error handler
\* answers 500
GetMe(a) ==
  /\ AuthAt(a, "getMe", "me")
  /\ \/ SetAuth(a, IF FindUniqueUser(users, areqs[a].token.userId) = NoUser
                   THEN Answer(areqs[a], 404, "USER_NOT_FOUND")
                   ELSE Answer(areqs[a], 200, ""))
     \/ \E code \in DatabaseErrors : SetAuth(a, Answer(areqs[a], 500, code))
  /\ UNCHANGED users

\* what req.user holds when a request reaches router.use(requireVerification):
\* nothing ahead of it on the path of DELETE /account assigns it
ReqUserAtRouterUse == NoUser

\* DELETE /account: router.use(requireVerification), then authenticate, then
\* the handler's prisma.user.update
DeleteAccount(a) ==
  /\ CanStartAuth(a)
  /\ \E token \in AccessTokens, now \in Times :
       LET req == [IdleAuthReq EXCEPT !.op = "deleteAccount", !.token = token]
           verified == requireVerification(ReqUserAtRouterUse)
           auth == authenticate(token, users) IN
       IF verified.code # "next"
       THEN /\ SetAuth(a, Answer(req, verified.status, verified.code))
            /\ UNCHANGED users
       ELSE IF auth.code # "next"
       THEN /\ SetAuth(a, Answer(req, auth.status, auth.code))
            /\ UNCHANGED users
       ELSE /\ users' = Deactivate(users, auth.user, now)
            /\ SetAuth(a, Answer(req, 200, ""))

\* the route DELETE /account as line 130 registers it, entered by a request
\* that has come past router.use: authenticate up to the answer of
\* findUnique; the handler then issues prisma.user.update with the names of
\* req.user and Date.now()
StartAccountRoute(a) ==
  /\ CanStartAuth(a)
  /\ \E token \in AccessTokens, now \in Times :
       \E auth \in Authenticated(token, users) :
         LET req == [IdleAuthReq EXCEPT !.op = "accountRoute",
                                        !.token = token] IN
         SetAuth(a, IF auth.code # "next"
                    THEN Answer(req, auth.status, auth.code)
                    ELSE [req EXCEPT !.pc = "update", !.user = auth.user.id,
                                     !.email = auth.user.email,
                                     !.username = auth.user.username,
                                     !.asOf = << now >>])
  /\ UNCHANGED users

\* the handler of DELETE /account: prisma.user.update returns and the answer
\* is 200, or it rejects and next(error) hands it to the error handler
AccountUpdate(a) ==
  /\ AuthAt(a, "accountRoute", "update")
  /\ \/ /\ users' = Deactivate(users,
                                [NoUser EXCEPT !.id = areqs[a].user,
                                               !.email = areqs[a].email,
                                               !.username = areqs[a].username],
                                areqs[a].asOf[1])
        /\ SetAuth(a, Answer(areqs[a], 200, ""))
     \/ /\ \E code \in DatabaseErrors : SetAuth(a, Answer(areqs[a], 500, code))
        /\ UNCHANGED users

\* ------------------------------------------- verification and reset tokens
\* the clock is advanced only while it reads less than MaxClock
MaxClock == 2

\* time passes: an hour or a day
Tick ==
  /\ clock < MaxClock
  /\ \E d \in {ResetTTL, VerificationTTL} : clock' = clock + d
  /\ UNCHANGED << users, areqs >>
  /\ UNCHANGED chatVars /\ UNCHANGED extVars

\* the token of a request body: the seeded one, a guess, or one that some
\* response has shown
SubmitTokens ==
  { << Lit("demo-verification-token-123") >>, << Lit("guess") >> }
  \cup { << RandomToken(a) >> : a \in ReqIds }

\* the email of a request body: of a verified account, of an unverified
\* one, of nobody
TokenEmails ==
  { << Lit("john.doe@example.com") >>, << Lit("unverified@example.com") >>,
    << Lit("nobody@example.com") >> }

\* where: { field: { gt: new Date() } }
Gt(date, time) == date # Null /\ date[1] > time

\* prisma.user.findFirst / findUnique, given the rows its where clause
\* selects
FindUser(found) ==
  IF found = {} THEN NoUser
  ELSE CHOOSE u \in found : \A v \in found : u.id <= v.id

\* prisma.user.update({ where: { id }, data }), given the row as data
\* leaves it
UpdateUser(table, id, row) ==
  { IF u.id = id THEN row ELSE u : u \in table }

\* POST /verify-email: the where clause is built with new Date() and
\* findFirst is issued
StartVerifyEmail(a) ==
  /\ CanStartAuth(a)
  /\ \E token \in SubmitTokens :
       SetAuth(a, [IdleAuthReq EXCEPT !.op = "verifyEmail", !.secret = token,
                                      !.pc = "find", !.asOf = << clock >>])
  /\ UNCHANGED users

\* verifyEmail: findFirst answers with the row that holds the token and
\* expires after the date of the where clause, and prisma.user.update is
\* issued; or findFirst rejects and the error handler answers 500
VerifyFind(a) ==
  /\ AuthAt(a, "verifyEmail", "find")
  /\ LET user == FindUser({ u \in users :
                    /\ u.emailVerificationToken = areqs[a].secret
                    /\ Gt(u.emailVerificationExpires, areqs[a].asOf[1]) }) IN
     \/ SetAuth(a, IF user = NoUser
                   THEN Answer(areqs[a], 400, "INVALID_VERIFICATION_TOKEN")
                   ELSE IF user.isVerified
                   THEN Answer(areqs[a], 400, "ALREADY_VERIFIED")
                   ELSE [areqs[a] EXCEPT !.pc = "update", !.user = user.id])
     \/ \E code \in DatabaseErrors : SetAuth(a, Answer(areqs[a], 500, code))
  /\ UNCHANGED users

\* verifyEmail: prisma.user.update returns, or rejects and the error handler
\* answers 500
VerifyEmail(a) ==
  /\ AuthAt(a, "verifyEmail", "update")
  /\ \/ /\ LET u == FindUniqueUser(users, areqs[a].user) IN
           users' = UpdateUser(users, u.id,
                      [u EXCEPT !.isVerified = TRUE,
                                !.emailVerificationToken = Null,
                                !.emailVerificationExpires = Null])
        /\ SetAuth(a, Answer(areqs[a], 200, ""))
     \/ /\ \E code \in DatabaseErrors : SetAuth(a, Answer(areqs[a], 500, code))
        /\ UNCHANGED users

\* POST /resend-verification up to the answer of findUnique, which may be
\* a rejection that the error handler answers 500
StartResendVerification(a) ==
  /\ CanStartAuth(a)
  /\ \E email \in TokenEmails :
       LET req == [IdleAuthReq EXCEPT !.op = "resendVerification",
                                      !.email = email]
           user == FindUser({ u \in users : u.email = email }) IN
       \/ SetAuth(a, IF user = NoUser
                     THEN Answer(req, 404, "USER_NOT_FOUND")
                     ELSE IF user.isVerified
                     THEN Answer(req, 400, "ALREADY_VERIFIED")
                     ELSE [req EXCEPT !.pc = "update", !.user = user.id,
                                      !.expires = << clock + VerificationTTL >>])
       \/ \E code \in DatabaseErrors : SetAuth(a, Answer(req, 500, code))
  /\ UNCHANGED users

\* resendVerification: prisma.user.update returns, or rejects and the error
\* handler answers 500
ResendVerification(a) ==
  /\ AuthAt(a, "resendVerification", "update")
  /\ \/ /\ LET u == FindUniqueUser(users, areqs[a].user) IN
           users' = UpdateUser(users, u.id,
                      [u EXCEPT !.emailVerificationToken = << RandomToken(a) >>,
                                !.emailVerificationExpires = areqs[a].expires])
        /\ SetAuth(a, [Answer(areqs[a], 200, "")
                       EXCEPT !.meta = << RandomToken(a) >>])
     \/ /\ \E code \in DatabaseErrors : SetAuth(a, Answer(areqs[a], 500, code))
        /\ UNCHANGED users

\* POST /forgot-password up to the answer of findUnique, which may be a
\* rejection that the error handler answers 500
StartForgotPassword(a) ==
  /\ CanStartAuth(a)
  /\ \E email \in TokenEmails :
       LET req == [IdleAuthReq EXCEPT !.op = "forgotPassword",
                                      !.email = email]
           user == FindUser({ u \in users : u.email = email }) IN
       \/ SetAuth(a, IF user = NoUser
                     THEN Answer(req, 200, "")
                     ELSE [req EXCEPT !.pc = "update", !.user = user.id,
                                      !.expires = << clock + ResetTTL >>])
       \/ \E code \in DatabaseErrors : SetAuth(a, Answer(req, 500, code))
  /\ UNCHANGED users

\* forgotPassword: prisma.user.update returns, or rejects and the error
\* handler answers 500
ForgotPassword(a) ==
  /\ AuthAt(a, "forgotPassword", "update")
  /\ \/ /\ LET u == FindUniqueUser(users, areqs[a].user) IN
           users' = UpdateUser(users, u.id,
                      [u EXCEPT !.passwordResetToken = << RandomToken(a) >>,
                                !.passwordResetExpires = areqs[a].expires])
        /\ SetAuth(a, [Answer(areqs[a], 200, "")
                       EXCEPT !.meta = << RandomToken(a) >>])
     \/ /\ \E code \in DatabaseErrors : SetAuth(a, Answer(areqs[a], 500, code))
        /\ UNCHANGED users

\* POST /reset-password: the where clause is built with new Date() and
\* findFirst is issued
StartResetPassword(a) ==
  /\ CanStartAuth(a)
  /\ \E token \in SubmitTokens :
       SetAuth(a, [IdleAuthReq EXCEPT !.op = "resetPassword",
                                      !.secret = token,
                                      !.pc = "find", !.asOf = << clock >>])
  /\ UNCHANGED users

\* resetPassword: findFirst answers with the row that holds the token and
\* expires after the date of the where clause, and hashPassword is started;
\* or findFirst rejects and the error handler answers 500
ResetFind(a) ==
  /\ AuthAt(a, "resetPassword", "find")
  /\ LET user == FindUser({ u \in users :
                    /\ u.passwordResetToken = areqs[a].secret
                    /\ Gt(u.passwordResetExpires, areqs[a].asOf[1]) }) IN
     \/ SetAuth(a, IF user = NoUser
                   THEN Answer(areqs[a], 400, "INVALID_RESET_TOKEN")
                   ELSE [areqs[a] EXCEPT !.pc = "hash", !.user = user.id])
     \/ \E code \in DatabaseErrors : SetAuth(a, Answer(areqs[a], 500, code))
  /\ UNCHANGED users

\* resetPassword: hashPassword returns; prisma.user.update is issued
ResetHash(a) ==
  /\ AuthAt(a, "resetPassword", "hash")
  /\ SetAuth(a, [areqs[a] EXCEPT !.pc = "update"])
  /\ UNCHANGED users

\* resetPassword: prisma.user.update returns, or rejects and the error
\* handler answers 500
ResetPassword(a) ==
  /\ AuthAt(a, "resetPassword", "update")
  /\ \/ /\ LET u == FindUniqueUser(users, areqs[a].user) IN
           users' = UpdateUser(users, u.id,
                      [u EXCEPT !.password = hashPassword("NewPass123!"),
                                !.passwordResetToken = Null,
                                !.passwordResetExpires = Null])
        /\ SetAuth(a, Answer(areqs[a], 200, ""))
     \/ /\ \E code \in DatabaseErrors : SetAuth(a, Answer(areqs[a], 500, code))
        /\ UNCHANGED users

\* ----------------------------------------------------------- changePassword
\* bcrypt.compare of a password with a hash
comparePassword(password, hashedPassword) ==
  hashedPassword = hashPassword(password)

\* currentPassword of the body: the seeded password, the one this route
\* sets, or neither
CurrentPasswords == {"UserPass123!", "ChangedPass1!", "Wrong1!"}

\* PUT /password: authenticate up to the answer of findUnique, then
\* changePassword issues its own findUnique
StartChangePassword(a) ==
  /\ CanStartAuth(a)
  /\ \E token \in AccessTokens, currentPassword \in CurrentPasswords :
       \E auth \in Authenticated(token, users) :
         LET req == [IdleAuthReq EXCEPT !.op = "changePassword",
                                        !.token = token,
                                        !.password = currentPassword] IN
         SetAuth(a, IF auth.code # "next"
                    THEN Answer(req, auth.status, auth.code)
                    ELSE [req EXCEPT !.pc = "find", !.user = auth.user.id])
  /\ UNCHANGED users

\* changePassword: findUnique returns the password of the row and
\* comparePassword is started; or findUnique rejects and the error handler
\* answers 500
ChangeFind(a) ==
  /\ AuthAt(a, "changePassword", "find")
  /\ LET user == FindUniqueUser(users, areqs[a].user) IN
     \/ SetAuth(a, IF user = NoUser
                   THEN Answer(areqs[a], 404, "USER_NOT_FOUND")
                   ELSE [areqs[a] EXCEPT !.pc = "compare",
                                         !.hash = << user.password >>])
     \/ \E code \in DatabaseErrors : SetAuth(a, Answer(areqs[a], 500, code))
  /\ UNCHANGED users

\* comparePassword returns; hashPassword is started
ChangeCompare(a) ==
  /\ AuthAt(a, "changePassword", "compare")
  /\ SetAuth(a, IF comparePassword(areqs[a].password, areqs[a].hash[1])
                THEN [areqs[a] EXCEPT !.pc = "hash"]
                ELSE Answer(areqs[a], 400, "INVALID_CURRENT_PASSWORD"))
  /\ UNCHANGED users

\* hashPassword returns; prisma.user.update is issued
ChangeHash(a) ==
  /\ AuthAt(a, "changePassword", "hash")
  /\ SetAuth(a, [areqs[a] EXCEPT !.pc = "update"])
  /\ UNCHANGED users

\* prisma.user.update returns: the row has the hash of the new password; or
\* it rejects and the error handler answers 500
ChangeUpdate(a) ==
  /\ AuthAt(a, "changePassword", "update")
  /\ \/ /\ LET u == FindUniqueUser(users, areqs[a].user) IN
           users' = UpdateUser(users, u.id,
                      [u EXCEPT !.password = hashPassword("ChangedPass1!")])
        /\ SetAuth(a, Answer(areqs[a], 200, ""))
     \/ /\ \E code \in DatabaseErrors : SetAuth(a, Answer(areqs[a], 500, code))
        /\ UNCHANGED users

\* ------------------------------------------------------- token middlewares
\* what decoded.firebaseUid leads to: the token has none, or auth.getUser
\* resolves with the record, or auth.getUser rejects
FirebaseUids == {"absent", "known", "unknown"}

\* authMiddleware of the Firebase build: the message of its answer stands
\* for the code, "next" for next(). Its guard is startsWith("Bearer "), and
\* the token is all that follows these seven characters: a header with more
\* words passes the guard and fails jwt.verify
authMiddleware(authHeader, firebaseUid) ==
  IF authHeader.kind \in {"none", "malformed"}
  THEN Verdict(401, "No token provided", NoUser)
  ELSE IF ~verifyAccessToken(authHeader)
  THEN Verdict(401, "Invalid or expired token", NoUser)
  ELSE IF firebaseUid = "unknown"
  THEN Verdict(401, "Invalid or expired token", NoUser)
  ELSE Verdict(0, "next", [NoUser EXCEPT !.id = authHeader.userId])

\* a route behind authMiddleware, up to the handler
AuthMiddleware(a) ==
  /\ CanStartAuth(a)
  /\ \E authHeader \in AccessTokens, firebaseUid \in FirebaseUids :
       LET req == [IdleAuthReq EXCEPT !.op = "authMiddleware",
                                      !.token = authHeader]
           auth == authMiddleware(authHeader, firebaseUid) IN
       SetAuth(a, IF auth.code # "next"
                  THEN Answer(req, auth.status, auth.code)
                  ELSE [req EXCEPT !.pc = "done", !.nexts = 1,
                                   !.ident = auth.user.id])
  /\ UNCHANGED users

\* a route behind optionalAuth, up to the answer of findUnique: without a
\* token that verifies, next() is called at once
StartOptionalAuth(a) ==
  /\ CanStartAuth(a)
  /\ \E authHeader \in AccessTokens :
       LET req == [IdleAuthReq EXCEPT !.op = "optionalAuth",
                                      !.token = authHeader]
           token == extractToken(authHeader) IN
       SetAuth(a, IF token = NoToken \/ ~verifyAccessToken(token)
                  THEN [req EXCEPT !.pc = "done", !.nexts = 1]
                  ELSE [req EXCEPT !.pc = "findUnique"])
  /\ UNCHANGED users

OptionalAuthAnyUser(a) ==
  /\ AuthAt(a, "optionalAuth", "findUnique")
  /\ SetAuth(a, [areqs[a] EXCEPT !.pc = "done", !.nexts = @ + 1,
                                 !.ident = areqs[a].token.userId])
  /\ UNCHANGED users

\* optionalAuth: prisma.user.findUnique returns a row or null, or rejects and
\* the catch block calls next()
OptionalAuth(a) ==
  /\ AuthAt(a, "optionalAuth", "findUnique")
  /\ LET user == FindUniqueUser(users, areqs[a].token.userId) IN
     \/ SetAuth(a, [areqs[a] EXCEPT
                      !.pc = "done", !.nexts = @ + 1,
                      !.ident = IF user # NoUser /\ user.isActive
                                THEN user.id ELSE 0])
     \/ SetAuth(a, [areqs[a] EXCEPT !.pc = "done", !.nexts = @ + 1])
  /\ UNCHANGED users

\* the refresh token of a request (cookie or body): none, a string that is no
\* signed JWT, or a signed refresh token that is expired or still valid
RefreshTokens ==
  AccessTokens \ { [kind |-> "malformed", userId |-> 0],
                   [kind |-> "extra", userId |-> 0] }

\* jwt.verify with the refresh secret
verifyRefreshToken(token) == token.kind = "valid"

\* POST /refresh up to the answer of findUnique
StartRefresh(a) ==
  /\ CanStartAuth(a)
  /\ \E refreshToken \in RefreshTokens :
       LET req == [IdleAuthReq EXCEPT !.op = "refresh",
                                      !.token = refreshToken] IN
       SetAuth(a, IF refreshToken = NoToken
                  THEN Answer(req, 401, "NO_REFRESH_TOKEN")
                  ELSE IF ~verifyRefreshToken(refreshToken)
                  THEN Answer(req, 401, "INVALID_REFRESH_TOKEN")
                  ELSE [req EXCEPT !.pc = "findUnique"])
  /\ UNCHANGED users

RefreshAnyUser(a) ==
  /\ AuthAt(a, "refresh", "findUnique")
  /\ SetAuth(a, [Answer(areqs[a], 200, "")
                 EXCEPT !.access = areqs[a].token.userId,
                        !.cookie = areqs[a].token.userId])
  /\ UNCHANGED users

\* refresh: prisma.user.findUnique returns; generateTokens signs an access
\* token and a refresh token for the user, the latter set as a cookie. Or
\* findUnique rejects and the error handler answers 500
Refresh(a) ==
  /\ AuthAt(a, "refresh", "findUnique")
  /\ \/ LET user == FindUniqueUser(users, areqs[a].token.userId) IN
        SetAuth(a, IF user = NoUser
                   THEN Answer(areqs[a], 401, "USER_NOT_FOUND")
                   ELSE IF ~user.isActive
                   THEN Answer(areqs[a], 401, "ACCOUNT_DEACTIVATED")
                   ELSE [Answer(areqs[a], 200, "")
                         EXCEPT !.access = user.id, !.cookie = user.id])
     \/ \E code \in DatabaseErrors : SetAuth(a, Answer(areqs[a], 500, code))
  /\ UNCHANGED users

\* AuthController.refreshToken of the Firebase build, whose users collection
\* is the user table: the message of its answer stands for the code. When
\* the read of the user document rejects, the catch block answers as it does
\* for a token that does not verify
RefreshToken(a) ==
  /\ CanStartAuth(a)
  /\ \E refreshToken \in RefreshTokens :
       LET req == [IdleAuthReq EXCEPT !.op = "refreshToken",
                                      !.token = refreshToken] IN
       \/ SetAuth(a, IF refreshToken = NoToken
                     THEN Answer(req, 401, "Refresh token required")
                     ELSE IF ~verifyRefreshToken(refreshToken)
                     THEN Answer(req, 401, "Invalid refresh token")
                     ELSE IF FindUniqueUser(users, refreshToken.userId) = NoUser
                     THEN Answer(req, 401, "Invalid refresh token")
                     ELSE [Answer(req, 200, "")
                           EXCEPT !.access = refreshToken.userId])
       \/ /\ refreshToken # NoToken /\ verifyRefreshToken(refreshToken)
          /\ SetAuth(a, Answer(req, 401, "Invalid refresh token"))
  /\ UNCHANGED users

\* ------------------------------------------------------------ specification
SendSteps(r) ==
  \/ StartSend(r) \/ SendCreateUser(r) \/ SendAI(r)
  \/ SendFallbackDocs(r) \/ SendCreateAsst(r) \/ SendUpdate(r)

\* requests made by u1, the owner of the seeded chat
OwnerReqs == { r \in ReqIds : reqs[r].caller = "u1" }

OwnerCap == Cardinality(OwnerReqs) <= MaxOwnerReqs

AddSteps(r) ==
  \/ StartAdd(r) \/ AddCreateUser(r) \/ AddAI(r)
  \/ AddThenCreate(r) \/ AddCatchCreate(r)

DeleteSteps(r) == StartDelete(r) \/ DeleteChat(r)

CreateSteps(r) == StartCreateChat(r) \/ CreateChatRow(r)

UpdateSteps(r) == StartUpdate(r) \/ UpdateChat(r)

ReadSteps(r) == StartRead(r) \/ ReadMessages(r) \/ ReadDocuments(r)

UploadSteps(r) ==
  \/ StartUploadFile(r) \/ UploadFileStore(r)
  \/ UploadFileCreate(r) \/ UploadFileTouch(r)
  \/ StartUploadDoc(r) \/ UploadDocLookup(r) \/ UploadDocCreate(r)
  \/ UploadDocProcess(r)

\* the message exchange: sends, deletion and update of the chat
NextSend ==
  \E r \in ReqIds :
    \/ SendSteps(r) \/ AddSteps(r) \/ DeleteSteps(r) \/ UpdateSteps(r)
    \/ CreateSteps(r)

SpecSend == Init /\ [][NextSend]_vars

\* the message exchange with the event loop running every settled callback
\* and the AI service call settling
SpecSendFair ==
  /\ Init
  /\ [][NextSend]_vars
  /\ \A r \in ReqIds :
       /\ WF_vars(AddAI(r))
       /\ WF_vars(AddThenCreate(r))
       /\ WF_vars(AddCatchCreate(r))

\* the upload routes, and deletion of the chat
NextUpload == \E r \in ReqIds : UploadSteps(r) \/ DeleteSteps(r)

SpecUpload == Init /\ [][NextUpload]_vars

\* the routes of the stack with detached AI calls that write rows of a chat:
\* addMessage, upload of a document, creation of a chart, and deleteChat
NextCascade ==
  \E r \in ReqIds :
    \/ AddSteps(r)
    \/ StartUploadDoc(r) \/ UploadDocLookup(r)
    \/ UploadDocCreate(r) \/ UploadDocProcess(r)
    \/ StartCreateChart(r) \/ CreateChartAI(r) \/ CreateChart(r)
    \/ StartDeleteChart(r) \/ DeleteChartFind(r) \/ DeleteChartRow(r)
    \/ DeleteSteps(r)
    \/ CreateSteps(r)

SpecCascade == Init /\ [][NextCascade]_vars

\* every chat route, with any number of requests by other users around a
\* bounded number of requests by the owner
Next ==
  \E r \in ReqIds :
    \/ StartSend(r) /\ OwnerCap'
    \/ StartQuery(r) /\ OwnerCap'
    \/ SendCreateUser(r) \/ SendAI(r) \/ SendFallbackDocs(r)
    \/ SendCreateAsst(r) \/ SendUpdate(r)
    \/ StartAdd(r) /\ OwnerCap'
    \/ AddCreateUser(r) \/ AddAI(r) \/ AddThenCreate(r) \/ AddCatchCreate(r)
    \/ StartDelete(r) /\ OwnerCap'
    \/ DeleteChat(r)
    \/ StartCreateChat(r) /\ OwnerCap'
    \/ CreateChatRow(r)
    \/ StartUpdate(r) /\ OwnerCap'
    \/ UpdateChat(r)
    \/ StartRead(r) /\ OwnerCap'
    \/ ReadMessages(r) \/ ReadDocuments(r)
    \/ StartUploadFile(r) /\ OwnerCap'
    \/ UploadFileStore(r) \/ UploadFileCreate(r) \/ UploadFileTouch(r)
    \/ StartUploadDoc(r) /\ OwnerCap'
    \/ UploadDocLookup(r) \/ UploadDocCreate(r) \/ UploadDocProcess(r)

Spec == Init /\ [][Next]_vars

AuthSteps(a) ==
  \/ StartRegister(a) \/ RegisterHash(a) \/ RegisterCreate(a)
  \/ StartChangePassword(a) \/ ChangeFind(a) \/ ChangeCompare(a)
  \/ ChangeHash(a) \/ ChangeUpdate(a)
  \/ StartMe(a) \/ GetMe(a)
  \/ DeleteAccount(a)

\* the account routes, and time
NextAuth == (\E a \in ReqIds : AuthSteps(a)) \/ Tick

SpecAuth == Init /\ [][NextAuth]_vars

GateSteps(a) ==
  \/ StartMe(a) \/ GetMe(a)
  \/ AuthMiddleware(a)
  \/ StartOptionalAuth(a) \/ OptionalAuth(a)
  \/ StartRefresh(a) \/ Refresh(a)
  \/ RefreshToken(a)

\* the route DELETE /account taken by itself, and register
NextAccount ==
  \E a \in ReqIds :
    \/ StartAccountRoute(a) \/ AccountUpdate(a)
    \/ StartRegister(a) \/ RegisterHash(a) \/ RegisterCreate(a)

SpecAccount == Init /\ [][NextAccount]_vars

\* requests through the middlewares that read tokens
NextGate == \E a \in ReqIds : GateSteps(a)

SpecGate == Init /\ [][NextGate]_vars

\* the routes that issue and redeem verification and reset tokens, and time
NextTokens ==
  \/ \E a \in ReqIds :
       \/ StartVerifyEmail(a) \/ VerifyFind(a) \/ VerifyEmail(a)
       \/ StartResendVerification(a) \/ ResendVerification(a)
       \/ StartForgotPassword(a) \/ ForgotPassword(a)
       \/ StartResetPassword(a) \/ ResetFind(a) \/ ResetHash(a)
       \/ ResetPassword(a)
       \/ StartChangePassword(a) \/ ChangeFind(a) \/ ChangeCompare(a)
       \/ ChangeHash(a) \/ ChangeUpdate(a)
  \/ Tick

SpecTokens == Init /\ [][NextTokens]_vars

\* ------------------------------------------ Firestore: files and queries
CanStartFire(r) ==
  /\ freqs[r].pc = "idle"
  /\ IF r = 1 THEN TRUE ELSE freqs[r - 1].pc # "idle"

FireAt(r, ops, pc) == freqs[r].op \in ops /\ freqs[r].pc = pc

\* a step of a Firestore handler leaves the other stacks alone
SetFire(r, rec) ==
  /\ freqs' = [freqs EXCEPT ![r] = rec]
  /\ UNCHANGED << chats, messages, documents, charts, disk, objects, reqs >>
  /\ UNCHANGED authVars
  /\ UNCHANGED << userRequests, dateNow, rlog >>

\* res.status(s).json(...): the handler is finished
Done(rec, s) == [rec EXCEPT !.pc = "done", !.status = s]

\* the ids a request body can name: of any stored file, or of none
FileIdSeqs ==
  LET ids == { f.id : f \in files } \cup {Missing} IN
  UNION { [1..n -> ids] : n \in 1..MaxBatch }

\* fileDoc.exists && fileDoc.data().userId === userId
OwnsFile(rows, id, userId) == \E f \in rows : f.id = id /\ f.userId = userId

\* fileDoc.exists
HasFile(rows, id) == \E f \in rows : f.id = id

\* db.collection('files').doc(id).update({ processingStatus }) of a document
\* that exists; on one that does not exist update() rejects
SetProcessingStatus(rows, id, st) ==
  { IF f.id = id THEN [f EXCEPT !.processingStatus = st] ELSE f : f \in rows }

\* ------------------------------------------------------------ uploadFiles
\* the handler is entered with the files multer has read; the stream of the
\* first file is opened
StartFilesUpload(r) ==
  /\ CanStartFire(r)
  /\ \E u \in Callers, via \in Vias, n \in 1..MaxBatch :
       SetFire(r, [IdleFireReq EXCEPT
                     !.op = "uploadFiles", !.via = via, !.caller = u,
                     !.fileIds = [k \in 1..n |-> Doc(10 * r + k)],
                     !.i = 1, !.pc = "stream"])
  /\ UNCHANGED << files, queries, faults >>

\* the write stream to the bucket finishes or fails
UploadStream(r) ==
  /\ FireAt(r, {"uploadFiles"}, "stream")
  /\ \/ SetFire(r, [freqs[r] EXCEPT !.pc = "set"])
     \/ SetFire(r, Done(freqs[r], 500))
  /\ UNCHANGED << files, queries, faults >>

\* a processFilesInAI that hands every error to its caller's catch block as
\* an error of the request
AfterProcessRethrow(rec, threw) == Done(rec, IF threw THEN 500 ELSE 200)

\* processFilesInAI has returned or thrown: uploadFiles logs the error and
\* answers success, reprocessFiles answers 500 from its catch block
AfterProcess(rec, threw) ==
  IF rec.op = "uploadFiles"
  THEN Done([rec EXCEPT !.body = rec.fileIds], 200)
  ELSE Done(rec, IF threw THEN 500 ELSE 200)

\* `this.processFilesInAI(files, ...)`: the router calls the handler without
\* a receiver, so `this` is undefined and the expression throws a TypeError;
\* called on the controller the loop starts and the first update is issued
CallProcess(rec) ==
  IF rec.via = "router"
  THEN AfterProcess(rec, TRUE)
  ELSE [rec EXCEPT !.i = 1, !.pc = "processing", !.called = TRUE]

\* doc(fileId).set(fileMetadata) returns: the next stream is opened, or the
\* files are handed to processFilesInAI
UploadSet(r) ==
  /\ FireAt(r, {"uploadFiles"}, "set")
  /\ \/ /\ Fault
        /\ SetFire(r, Done(freqs[r], 500))
        /\ UNCHANGED files
     \/ /\ NoFault
        /\ files' = files \cup
             { [id |-> freqs[r].fileIds[freqs[r].i], userId |-> freqs[r].caller,
                processingStatus |-> "pending"] }
        /\ LET rec == [freqs[r] EXCEPT !.writes = @ + 1] IN
           SetFire(r, IF rec.i < Len(rec.fileIds)
                      THEN [rec EXCEPT !.i = @ + 1, !.pc = "stream"]
                      ELSE CallProcess(rec))
  /\ UNCHANGED queries

\* ------------------------------------------------------- processFilesInAI
ProcessOps == {"uploadFiles", "reprocessFiles"}

\* update({ processingStatus: 'processing' }) returns; blob.download is
\* issued, or the catch block issues the update to 'failed'
ProcessStarted(r) ==
  /\ FireAt(r, ProcessOps, "processing")
  /\ \/ /\ Fault
        /\ SetFire(r, [freqs[r] EXCEPT !.pc = "failed"])
        /\ UNCHANGED files
     \/ /\ NoFault
        /\ IF HasFile(files, freqs[r].fileIds[freqs[r].i])
           THEN /\ files' = SetProcessingStatus(files,
                               freqs[r].fileIds[freqs[r].i], "processing")
                /\ SetFire(r, [freqs[r] EXCEPT !.pc = "download"])
           ELSE /\ SetFire(r, [freqs[r] EXCEPT !.pc = "failed"])
                /\ UNCHANGED files
  /\ UNCHANGED queries

\* blob.download settles: axios.post(/api/v1/documents/upload) is issued, or
\* the catch block issues the update to 'failed'
ProcessDownload(r) ==
  /\ FireAt(r, ProcessOps, "download")
  /\ \/ SetFire(r, [freqs[r] EXCEPT !.pc = "post"])
     \/ SetFire(r, [freqs[r] EXCEPT !.pc = "failed", !.ai = "fail"])
  /\ UNCHANGED << files, queries, faults >>

\* axios.post settles, the AI service having been called: the update to
\* 'completed' is issued, or the catch block issues the update to 'failed'
ProcessPost(r) ==
  /\ FireAt(r, ProcessOps, "post")
  /\ \/ SetFire(r, [freqs[r] EXCEPT !.pc = "completed", !.aiCalls = @ + 1])
     \/ SetFire(r, [freqs[r] EXCEPT !.pc = "failed", !.aiCalls = @ + 1,
                                    !.ai = "fail"])
  /\ UNCHANGED << files, queries, faults >>

\* update({ processingStatus: 'completed' }) returns: the loop goes on with
\* the next file or processFilesInAI returns
ProcessCompleted(r) ==
  /\ FireAt(r, ProcessOps, "completed")
  /\ \/ /\ Fault
        /\ SetFire(r, [freqs[r] EXCEPT !.pc = "failed"])
        /\ UNCHANGED files
     \/ /\ NoFault
        /\ IF HasFile(files, freqs[r].fileIds[freqs[r].i])
           THEN /\ files' = SetProcessingStatus(files,
                               freqs[r].fileIds[freqs[r].i], "completed")
                /\ SetFire(r, IF freqs[r].i < Len(freqs[r].fileIds)
                              THEN [freqs[r] EXCEPT !.i = @ + 1,
                                                    !.pc = "processing"]
                              ELSE AfterProcess(freqs[r], FALSE))
           ELSE /\ SetFire(r, [freqs[r] EXCEPT !.pc = "failed"])
                /\ UNCHANGED files
  /\ UNCHANGED queries

\* the catch block: update({ processingStatus: 'failed' }) returns and the
\* error is thrown again, which ends the loop; a rejected update ends it too
ProcessFailed(r) ==
  /\ FireAt(r, ProcessOps, "failed")
  /\ \/ /\ Fault
        /\ UNCHANGED files
     \/ /\ NoFault
        /\ IF HasFile(files, freqs[r].fileIds[freqs[r].i])
           THEN files' = SetProcessingStatus(files,
                           freqs[r].fileIds[freqs[r].i], "failed")
           ELSE UNCHANGED files
  /\ SetFire(r, AfterProcess(freqs[r], TRUE))
  /\ UNCHANGED queries

\* ------------------------------- processFiles, reprocessFiles, submitQuery
ValidatingOps == {"processFiles", "reprocessFiles", "submitQuery"}

\* processFiles or reprocessFiles is entered; the first file is looked up
StartFileIds(r) ==
  /\ CanStartFire(r)
  /\ \E op \in {"processFiles", "reprocessFiles"}, u \in Callers,
        via \in Vias, fileIds \in FileIdSeqs :
       SetFire(r, [IdleFireReq EXCEPT
                     !.op = op, !.via = via, !.caller = u,
                     !.fileIds = fileIds, !.i = 1, !.pc = "validate"])
  /\ UNCHANGED << files, queries, faults >>

\* every file belongs to the caller: processFiles calls the AI service,
\* reprocessFiles hands the files to processFilesInAI, submitQuery stores
\* the query
Validated(rec) ==
  IF rec.op = "processFiles"
  THEN [rec EXCEPT !.pc = "process"]
  ELSE IF rec.op = "reprocessFiles"
       THEN CallProcess(rec)
       ELSE [rec EXCEPT !.pc = "add"]

\* a loop that marks each file as it is checked
ValidateFileMarking(r) ==
  /\ FireAt(r, ValidatingOps, "validate")
  /\ LET id == freqs[r].fileIds[freqs[r].i] IN
     \/ /\ Fault
        /\ SetFire(r, Done(freqs[r], 500))
        /\ UNCHANGED files
     \/ /\ NoFault
        /\ IF ~ OwnsFile(files, id, freqs[r].caller)
           THEN /\ SetFire(r, Done(freqs[r], 403))
                /\ UNCHANGED files
           ELSE /\ files' = SetProcessingStatus(files, id, "processing")
                /\ LET rec == [freqs[r] EXCEPT !.writes = @ + 1] IN
                   SetFire(r, IF rec.i < Len(rec.fileIds)
                              THEN [rec EXCEPT !.i = @ + 1]
                              ELSE Validated(rec))
  /\ UNCHANGED queries

\* db.collection('files').doc(fileId).get() returns: 403 for a file that does
\* not exist or belongs to another user, else the next file is looked up
ValidateFile(r) ==
  /\ FireAt(r, ValidatingOps, "validate")
  /\ LET id == freqs[r].fileIds[freqs[r].i] IN
     \/ /\ Fault
        /\ SetFire(r, Done(freqs[r], 500))
     \/ /\ NoFault
        /\ SetFire(r, IF ~ OwnsFile(files, id, freqs[r].caller)
                      THEN Done(freqs[r], 403)
                      ELSE IF freqs[r].i < Len(freqs[r].fileIds)
                           THEN [freqs[r] EXCEPT !.i = @ + 1]
                           ELSE Validated(freqs[r]))
  /\ UNCHANGED << files, queries >>

\* processFiles: axios.post(/api/v1/documents/process) settles; the first
\* update is issued
ProcessFilesAI(r) ==
  /\ FireAt(r, {"processFiles"}, "process")
  /\ \/ SetFire(r, [freqs[r] EXCEPT !.i = 1, !.pc = "mark", !.aiCalls = @ + 1])
     \/ SetFire(r, Done([freqs[r] EXCEPT !.aiCalls = @ + 1, !.ai = "fail"], 500))
  /\ UNCHANGED << files, queries, faults >>

\* processFiles: update({ processingStatus: 'processing' }) returns
ProcessFilesMark(r) ==
  /\ FireAt(r, {"processFiles"}, "mark")
  /\ \/ /\ Fault
        /\ SetFire(r, Done(freqs[r], 500))
        /\ UNCHANGED files
     \/ /\ NoFault
        /\ IF HasFile(files, freqs[r].fileIds[freqs[r].i])
           THEN /\ files' = SetProcessingStatus(files,
                               freqs[r].fileIds[freqs[r].i], "processing")
                /\ LET rec == [freqs[r] EXCEPT !.writes = @ + 1] IN
                   SetFire(r, IF rec.i < Len(rec.fileIds)
                              THEN [rec EXCEPT !.i = @ + 1]
                              ELSE Done(rec, 200))
           ELSE /\ SetFire(r, Done(freqs[r], 500))
                /\ UNCHANGED files
  /\ UNCHANGED queries

\* -------------------------------------------------------------- deleteFile
\* req.params.fileId: the id of any stored file, or of none
DeleteFileIds == { f.id : f \in files } \cup {Missing}

\* the handler is entered; doc(fileId).get() is issued
StartFileDelete(r) ==
  /\ CanStartFire(r)
  /\ \E u \in Callers, fileId \in DeleteFileIds :
       SetFire(r, [IdleFireReq EXCEPT
                     !.op = "deleteFile", !.via = "router", !.caller = u,
                     !.fileIds = << fileId >>, !.i = 1, !.pc = "get"])
  /\ UNCHANGED << files, queries, faults >>

\* doc(fileId).get() returns: 404 for no document, 403 for a file of another
\* user, else bucket.file(gcsPath).delete() is issued
DeleteFileGet(r) ==
  /\ FireAt(r, {"deleteFile"}, "get")
  /\ LET id == freqs[r].fileIds[1] IN
     \/ /\ Fault
        /\ SetFire(r, Done(freqs[r], 500))
     \/ /\ NoFault
        /\ SetFire(r, IF ~ HasFile(files, id)
                      THEN Done(freqs[r], 404)
                      ELSE IF ~ OwnsFile(files, id, freqs[r].caller)
                           THEN Done(freqs[r], 403)
                           ELSE [freqs[r] EXCEPT !.pc = "blob"])
  /\ UNCHANGED << files, queries >>

\* the delete of the blob settles, a rejection being logged only;
\* axios.delete(/api/v1/documents/) is issued
DeleteFileBlob(r) ==
  /\ FireAt(r, {"deleteFile"}, "blob")
  /\ SetFire(r, [freqs[r] EXCEPT !.pc = "vectors"])
  /\ UNCHANGED << files, queries, faults >>

\* axios.delete settles, a rejection being logged only; doc(fileId).delete()
\* is issued
DeleteFileAI(r) ==
  /\ FireAt(r, {"deleteFile"}, "vectors")
  /\ \/ SetFire(r, [freqs[r] EXCEPT !.pc = "remove", !.aiCalls = @ + 1])
     \/ SetFire(r, [freqs[r] EXCEPT !.pc = "remove", !.aiCalls = @ + 1,
                                    !.ai = "fail"])
  /\ UNCHANGED << files, queries, faults >>

\* doc(fileId).delete() returns: the document is gone, file_deleted is
\* emitted and the answer is 200
DeleteFileDoc(r) ==
  /\ FireAt(r, {"deleteFile"}, "remove")
  /\ \/ /\ Fault
        /\ SetFire(r, Done(freqs[r], 500))
        /\ UNCHANGED files
     \/ /\ NoFault
        /\ files' = { f \in files : f.id # freqs[r].fileIds[1] }
        /\ SetFire(r, Done([freqs[r] EXCEPT
                              !.writes = @ + 1,
                              !.events = Append(@, "file_deleted")], 200))
  /\ UNCHANGED queries

\* ------------------------------------------------------------ submitQuery
\* req.body.fileIds: absent (the default []) or a list of ids
QueryFileIds == { << >> } \cup FileIdSeqs

\* validationResult; with fileIds the first file is looked up, without them
\* the query is stored
StartQuerySubmit(r) ==
  /\ CanStartFire(r)
  /\ \E u \in Callers, query \in Contents, fileIds \in QueryFileIds :
       LET rec == [IdleFireReq EXCEPT
                     !.op = "submitQuery", !.via = "router", !.method = "POST",
                     !.caller = u, !.fileIds = fileIds, !.i = 1] IN
       SetFire(r, IF query = NoText
                  THEN Done(rec, 400)
                  ELSE IF Len(fileIds) > 0
                       THEN [rec EXCEPT !.pc = "validate"]
                       ELSE [rec EXCEPT !.pc = "add"])
  /\ UNCHANGED << files, queries, faults >>

\* db.collection("queries").add returns: query_processing_started is emitted
\* and the AI service is called
SubmitAdd(r) ==
  /\ FireAt(r, {"submitQuery"}, "add")
  /\ \/ /\ Fault
        /\ SetFire(r, Done(freqs[r], 500))
        /\ UNCHANGED queries
     \/ /\ NoFault
        /\ queries' = queries \cup
             { [id |-> Doc(10 * r), userId |-> freqs[r].caller,
                status |-> "processing"] }
        /\ SetFire(r, [freqs[r] EXCEPT
                         !.queryId = Doc(10 * r), !.writes = @ + 1,
                         !.events = << "query_processing_started" >>,
                         !.pc = "ai"])
  /\ UNCHANGED files

\* axios.post settles: the update to "completed" is issued, or the catch
\* block issues the update to "failed"
SubmitAI(r) ==
  /\ FireAt(r, {"submitQuery"}, "ai")
  /\ \/ SetFire(r, [freqs[r] EXCEPT !.pc = "complete", !.ai = "ok",
                                    !.aiCalls = @ + 1])
     \/ SetFire(r, [freqs[r] EXCEPT !.pc = "fail", !.ai = "fail",
                                    !.aiCalls = @ + 1])
  /\ UNCHANGED << files, queries, faults >>

\* queryRef.update({ status }): rejects when the document is gone
SetQueryStatus(rows, id, st) ==
  { IF q.id = id THEN [q EXCEPT !.status = st] ELSE q : q \in rows }

HasQuery(rows, id) == \E q \in rows : q.id = id

\* a catch block that answers at once and leaves the document alone
SubmitFailSilent(r) ==
  /\ FireAt(r, {"submitQuery"}, "fail")
  /\ NoFault
  /\ SetFire(r, Done([freqs[r] EXCEPT
                        !.events = Append(@, "query_error")], 500))
  /\ UNCHANGED << files, queries >>

\* queryRef.update({ status: "completed" }) returns: query_result, 200; a
\* rejected update is handled by the catch block like a failed AI call
SubmitComplete(r) ==
  /\ FireAt(r, {"submitQuery"}, "complete")
  /\ \/ /\ Fault
        /\ SetFire(r, [freqs[r] EXCEPT !.pc = "fail"])
        /\ UNCHANGED queries
     \/ /\ NoFault
        /\ IF HasQuery(queries, freqs[r].queryId)
           THEN /\ queries' = SetQueryStatus(queries, freqs[r].queryId,
                                             "completed")
                /\ SetFire(r, Done([freqs[r] EXCEPT
                                      !.writes = @ + 1,
                                      !.events = Append(@, "query_result")],
                                   200))
           ELSE /\ SetFire(r, [freqs[r] EXCEPT !.pc = "fail"])
                /\ UNCHANGED queries
  /\ UNCHANGED files

\* queryRef.update({ status: "failed" }) returns: query_error, 500; a rejected
\* update is answered by the outer catch block
SubmitFail(r) ==
  /\ FireAt(r, {"submitQuery"}, "fail")
  /\ \/ /\ Fault
        /\ SetFire(r, Done(freqs[r], 500))
        /\ UNCHANGED queries
     \/ /\ NoFault
        /\ IF HasQuery(queries, freqs[r].queryId)
           THEN /\ queries' = SetQueryStatus(queries, freqs[r].queryId,
                                             "failed")
                /\ SetFire(r, Done([freqs[r] EXCEPT
                                      !.writes = @ + 1,
                                      !.events = Append(@, "query_error")],
                                   500))
           ELSE /\ SetFire(r, Done(freqs[r], 500))
                /\ UNCHANGED queries
  /\ UNCHANGED files

\* --------------------------------------- the query router: DELETE requests
\* router.post / get / delete of queryRoutes.js, in the order of registration
Param == Lit(":queryId")

QueryRoutes ==
  << [method |-> "POST", path |-> << >>, handler |-> "submitQuery"],
     [method |-> "GET", path |-> << Lit("history") >>,
      handler |-> "getQueryHistory"],
     [method |-> "GET", path |-> << Lit("stats"), Lit("summary") >>,
      handler |-> "getQueryStats"],
     [method |-> "GET", path |-> << Param >>, handler |-> "getQueryById"],
     [method |-> "DELETE", path |-> << Param >>, handler |-> "deleteQuery"],
     [method |-> "DELETE", path |-> << Lit("history") >>,
      handler |-> "clearQueryHistory"] >>

\* a route path matches a request path segment by segment; a parameter
\* matches any segment
Match(pattern, path) ==
  /\ Len(pattern) = Len(path)
  /\ \A k \in 1..Len(pattern) :
       IF pattern[k] = Param THEN TRUE ELSE pattern[k] = path[k]

\* Express runs the first registered route that matches
Dispatch(routes, method, path) ==
  LET hits == { k \in 1..Len(routes) :
                  routes[k].method = method /\ Match(routes[k].path, path) } IN
  IF hits = {} THEN "none"
  ELSE routes[CHOOSE k \in hits : \A j \in hits : k <= j].handler

\* the paths of DELETE requests: /history, and /<id> for an id of a stored
\* query or of none
DeletePaths ==
  { << Lit("history") >> }
    \cup { << q.id >> : q \in queries } \cup { << Missing >> }

DeleteOps == {"deleteQuery", "clearQueryHistory"}

\* a DELETE request reaches the router, or a handler is called as a method
\* of the controller; the handler issues its read
StartQueryDelete(r) ==
  /\ CanStartFire(r)
  /\ \E u \in Callers, via \in Vias, path \in DeletePaths, op \in DeleteOps :
       LET handler == IF via = "router"
                      THEN Dispatch(QueryRoutes, "DELETE", path) ELSE op IN
       SetFire(r, [IdleFireReq EXCEPT
                     !.op = handler, !.via = via, !.method = "DELETE",
                     !.path = path, !.caller = u, !.queryId = path[1],
                     !.pc = "get"])
  /\ UNCHANGED << files, queries, faults >>

\* deleteQuery: doc(queryId).get() returns, 404, 403 or the delete is issued;
\* clearQueryHistory: where("userId", "==", userId).get() returns and the
\* batch of deletes is committed
QueryGet(r) ==
  /\ FireAt(r, DeleteOps, "get")
  /\ \/ /\ Fault
        /\ SetFire(r, Done(freqs[r], 500))
     \/ /\ NoFault
        /\ SetFire(r,
             IF freqs[r].op = "clearQueryHistory"
             THEN [freqs[r] EXCEPT
                     !.snapshot = { q.id : q \in { d \in queries :
                                      d.userId = freqs[r].caller } },
                     !.pc = "delete"]
             ELSE IF ~ HasQuery(queries, freqs[r].queryId)
                  THEN Done(freqs[r], 404)
                  ELSE IF \E q \in queries : /\ q.id = freqs[r].queryId
                                             /\ q.userId # freqs[r].caller
                       THEN Done(freqs[r], 403)
                       ELSE [freqs[r] EXCEPT !.snapshot = {freqs[r].queryId},
                                             !.pc = "delete"])
  /\ UNCHANGED << files, queries >>

\* queryDoc.ref.delete() or batch.commit() returns
QueryDelete(r) ==
  /\ FireAt(r, DeleteOps, "delete")
  /\ \/ /\ Fault
        /\ SetFire(r, Done(freqs[r], 500))
        /\ UNCHANGED queries
     \/ /\ NoFault
        /\ queries' = { q \in queries : q.id \notin freqs[r].snapshot }
        /\ SetFire(r, Done(freqs[r], 200))
  /\ UNCHANGED files

\* the file routes of the Firestore stack
NextFiles ==
  \E r \in ReqIds :
    \/ StartFilesUpload(r) \/ UploadStream(r) \/ UploadSet(r)
    \/ ProcessStarted(r) \/ ProcessDownload(r) \/ ProcessPost(r)
    \/ ProcessCompleted(r) \/ ProcessFailed(r)
    \/ StartFileIds(r) \/ ValidateFile(r)
    \/ ProcessFilesAI(r) \/ ProcessFilesMark(r)
    \/ StartFileDelete(r) \/ DeleteFileGet(r) \/ DeleteFileBlob(r)
    \/ DeleteFileAI(r) \/ DeleteFileDoc(r)

SpecFiles == Init /\ [][NextFiles]_vars

\* the query routes of the Firestore stack
NextQuery ==
  \E r \in ReqIds :
    \/ StartQuerySubmit(r) \/ ValidateFile(r) \/ SubmitAdd(r) \/ SubmitAI(r)
    \/ SubmitComplete(r) \/ SubmitFail(r)
    \/ StartQueryDelete(r) \/ QueryGet(r) \/ QueryDelete(r)

SpecQuery == Init /\ [][NextQuery]_vars

\* the handlers that take fileIds from the request body
NextFileIds ==
  \E r \in ReqIds :
    \/ StartFileIds(r) \/ StartQuerySubmit(r) \/ ValidateFile(r)
    \/ ProcessFilesAI(r) \/ ProcessFilesMark(r)
    \/ ProcessStarted(r) \/ ProcessDownload(r) \/ ProcessPost(r)
    \/ ProcessCompleted(r) \/ ProcessFailed(r)
    \/ SubmitAdd(r) \/ SubmitAI(r) \/ SubmitComplete(r) \/ SubmitFail(r)
    \/ StartFileDelete(r) \/ DeleteFileGet(r) \/ DeleteFileBlob(r)
    \/ DeleteFileAI(r) \/ DeleteFileDoc(r)

SpecFileIds == Init /\ [][NextFileIds]_vars

\* the chart routes: a chart is created and read
NextChart ==
  \E r \in ReqIds :
    \/ StartCreateChart(r) \/ CreateChartAI(r) \/ CreateChart(r)
    \/ StartGetChart(r) \/ GetChartById(r)
    \/ StartDeleteChart(r) \/ DeleteChartFind(r) \/ DeleteChartRow(r)

SpecChart == Init /\ [][NextChart]_vars

\* ------------------------------------------------- authenticatedRateLimit
\* Date.now() moves on
RateTick ==
  /\ dateNow < MaxNow
  /\ dateNow' = dateNow + 1
  /\ UNCHANGED << chatVars, authVars, userRequests, rlog, fireVars >>

\* userRequestHistory.filter((timestamp) => timestamp > windowStart)
InWindow(history, windowStart) ==
  SelectSeq(history, LAMBDA timestamp : timestamp > windowStart)

\* what the middleware answers: 429, or next()
Outcome(user, at, status) == [user |-> user, at |-> at, status |-> status]

\* a limiter that lets a user through while the history holds max entries
RateLimitOneMore ==
  /\ Len(rlog) < MaxLog
  /\ \E user \in ReqUsers :
       IF user = Null
       THEN /\ rlog' = Append(rlog, Outcome(user, dateNow, "next"))
            /\ UNCHANGED userRequests
       ELSE LET userId == user[1]
                userRequestHistory ==
                  InWindow(userRequests[userId], dateNow - RateWindow) IN
            IF Len(userRequestHistory) > RateMax
            THEN /\ rlog' = Append(rlog, Outcome(user, dateNow, "429"))
                 /\ UNCHANGED userRequests
            ELSE /\ userRequests' =
                      [userRequests EXCEPT
                         ![userId] = Append(userRequestHistory, dateNow)]
                 /\ rlog' = Append(rlog, Outcome(user, dateNow, "next"))
  /\ UNCHANGED << chatVars, authVars, dateNow, fireVars >>

\* the middleware runs for one request, start to end
RateLimit ==
  /\ Len(rlog) < MaxLog
  /\ \E user \in ReqUsers :
       IF user = Null
       THEN /\ rlog' = Append(rlog, Outcome(user, dateNow, "next"))
            /\ UNCHANGED userRequests
       ELSE LET userId == user[1]
                userRequestHistory ==
                  InWindow(userRequests[userId], dateNow - RateWindow) IN
            IF Len(userRequestHistory) >= RateMax
            THEN /\ rlog' = Append(rlog, Outcome(user, dateNow, "429"))
                 /\ UNCHANGED userRequests
            ELSE /\ userRequests' =
                      [userRequests EXCEPT
                         ![userId] = Append(userRequestHistory, dateNow)]
                 /\ rlog' = Append(rlog, Outcome(user, dateNow, "next"))
  /\ UNCHANGED << chatVars, authVars, dateNow, fireVars >>

NextRate == RateLimit \/ RateTick

SpecRate == Init /\ [][NextRate]_vars

\* ==================================================================== claims
\* chat c was made for user u: the owner of a row never changes, and the id
\* of a deleted row is not given again
Owned(u, c) ==
  \/ \E row \in InitChats : row.id = c /\ row.userId = u
  \/ \E q \in ReqIds : /\ reqs[q].op = "createChat" /\ reqs[q].status = 201
                       /\ reqs[q].chat = c /\ reqs[q].caller = u

UploadOps == {"uploadFile", "uploadDocument"}

\* the step is taken by request r on a chat, whose caller does not own it
StrangerStep(r) ==
  /\ reqs'[r] # reqs[r]
  /\ reqs'[r].op # "createChat"
  /\ ~Owned(reqs'[r].caller, reqs'[r].chat)

\* C1 as stated: every operation on a chat the caller does not own answers
\* 404 or 403 and leaves the Chat, Message and Document tables unchanged.
C1_AsStated ==
  [][\A r \in ReqIds :
       StrangerStep(r) =>
         /\ UNCHANGED tables
         /\ reqs'[r].pc = "done" => reqs'[r].status \in {403, 404}]_vars

\* C1 amended: such an operation never succeeds and never changes the tables
\* or the object store.  It answers 404 (uploadFile: 403), except that an
\* empty body or missing file is answered 400 before the lookup, an upload
\* rejected by multer gets the error handler's status, a rejected lookup is
\* answered 500 (uploadFile: not answered at all), and
\* uploadDocumentAndTriggerWorkflow on memory storage answers 500.
C1_NoAccess ==
  [][\A r \in ReqIds :
       StrangerStep(r) =>
         LET q == reqs'[r] IN
         /\ UNCHANGED << tables, objects >>
         /\ q.pc = "done" =>
              \/ q.status = (IF q.op = "uploadFile" THEN 403 ELSE 404)
              \/ /\ q.status = 400
                 /\ q.op \in {"sendMessage", "submitQuery"}
                    \/ (q.op \in UploadOps /\ q.file = 0)
              \/ /\ q.op \in UploadOps
                 /\ Multer(q.route, q.file, q.mime) # "ok"
                 /\ q.status = ErrorStatus(q.route, Multer(q.route, q.file, q.mime))
              \/ /\ faults' = faults + 1
                 /\ IF q.op = "uploadFile"
                    THEN q.status = 0 /\ q.cont = "unhandled"
                    ELSE q.status = 500
              \/ /\ q.op = "uploadDocument"
                 /\ StorageOf(q.route) = "memory"
                 /\ q.status = 500]_vars

\* janesmith's delete of a chat of johndoe was answered 404 and the chat is
\* still there
C1_Witness ==
  \E r \in ReqIds :
    /\ reqs[r].caller = "u2" /\ reqs[r].op = "deleteChat"
    /\ reqs[r].status = 404
    /\ \E row \in InitChats : row.id = reqs[r].chat /\ row.userId = "u1"
    /\ chats = InitChats /\ messages = InitMessages

\* the Message rows request r wrote, in table order
RowsOf(rows, r) == SelectSeq(rows, LAMBDA m : m.req = r)

UserSenders == {"USER", "user"}
AsstSenders == {"ASSISTANT", "assistant"}

UserRowsOf(rows, r) ==
  SelectSeq(rows, LAMBDA m : m.req = r /\ m.sender \in UserSenders)

AsstRowsOf(rows, r) ==
  SelectSeq(rows, LAMBDA m : m.req = r /\ m.sender \in AsstSenders)

\* request r has passed its checks and its user insert settles in this step
UserInsertSettles(r) ==
  reqs[r].pc = "createUser" /\ reqs'[r].pc # "createUser"

\* C2 as stated: every send that passes the content and ownership checks
\* persists exactly one user Message.
C2_AsStated ==
  [][\A r \in ReqIds :
       UserInsertSettles(r) =>
         /\ reqs'[r].userIns = 1
         /\ Len(UserRowsOf(messages', r)) = 1]_vars

\* C2 amended: a send that passes the checks persists at most one user
\* Message; it persists exactly one unless the insert itself is rejected
\* (the chat was deleted after the lookup, or the database failed), and then
\* the request ends 500 with no row.  Once persisted, the row stays, whatever
\* the AI call and the later writes do, until the chat itself is deleted.
C2_UserMessage ==
  [][\A r \in ReqIds :
       /\ UserInsertSettles(r) =>
            IF reqs'[r].userIns = 1
            THEN /\ Len(messages') = Len(messages) + 1
                 /\ UserRowsOf(messages', r) = << messages'[Len(messages')] >>
                 /\ messages'[Len(messages')].content = << Lit(reqs[r].content) >>
            ELSE /\ reqs'[r].userIns = 0
                 /\ messages' = messages
                 /\ reqs'[r].pc = "done" /\ reqs'[r].status = 500
                 /\ faults' = faults + 1 \/ ~ChatExists(chats, reqs[r].chat)
       /\ reqs[r].userIns = 1 =>
            /\ reqs'[r].userIns = 1
            /\ \/ UserRowsOf(messages', r) = UserRowsOf(messages, r)
               \/ ~ChatExists(chats', reqs[r].chat)]_vars

\* a sendMessage ended 500 on a failed later write and an addMessage saw its
\* AI call fail; the user Message of each is in the table
C2_Witness ==
  \E r1, r2 \in ReqIds :
    /\ reqs[r1].op = "sendMessage" /\ reqs[r1].pc = "done"
    /\ reqs[r1].status = 500 /\ reqs[r1].userIns = 1
    /\ Len(UserRowsOf(messages, r1)) = 1
    /\ reqs[r2].op = "addMessage" /\ reqs[r2].ai = "fail"
    /\ Len(UserRowsOf(messages, r2)) = 1

\* request r is over: the response is sent and no continuation is pending
Finished(r) == reqs[r].pc = "done"

AIFailed(r) == Finished(r) /\ reqs[r].ai = "fail"

\* C3: when the AI call fails during a send, the send still persists exactly
\* one assistant Message, the failure surfaces neither as an error status nor
\* as an unhandled rejection, and the text of the Message is the fixed
\* apology text: two failed sends through the same handler store the same
\* text.  Stated for sends during which no database call is rejected and
\* whose chat is still there.
C3_FixedText ==
  \A r, r2 \in ReqIds :
    ( /\ AIFailed(r) /\ AIFailed(r2) /\ reqs[r].op = reqs[r2].op
      /\ faults = 0
      /\ ChatExists(chats, reqs[r].chat) /\ ChatExists(chats, reqs[r2].chat) )
    => /\ Len(AsstRowsOf(messages, r)) = 1
       /\ reqs[r].status \in {200, 201}
       /\ reqs[r].cont # "unhandled"
       /\ AsstRowsOf(messages, r)[1].content
            = AsstRowsOf(messages, r2)[1].content

StateOf(table, id) == (CHOOSE c \in table : c.id = id).state

\* the step in which a sendMessage whose AI call succeeded answers 200
SendSucceeds(r) ==
  /\ reqs[r].op = "sendMessage" /\ reqs[r].pc = "update"
  /\ reqs[r].ai = "ok"
  /\ reqs'[r].pc = "done" /\ reqs'[r].status = 200

\* C4: a sendMessage that succeeds with a successful AI call has appended
\* exactly two Messages, the user Message before the assistant Message, and
\* leaves the chat in state CHAT (in particular a chat that was in UPLOAD).
C4_TwoMessages ==
  [][\A r \in ReqIds :
       SendSucceeds(r) =>
         /\ StateOf(chats', reqs[r].chat) = "CHAT"
         /\ reqs'[r].userIns = 1 /\ reqs'[r].asstIns = 1
         /\ Len(RowsOf(messages', r)) = 2
         /\ RowsOf(messages', r)[1].sender = "USER"
         /\ RowsOf(messages', r)[2].sender = "ASSISTANT"
         /\ RowsOf(messages', r)[2].type = "RESPONSE"
         /\ \E response \in AIResponses :
              RowsOf(messages', r)[2].content = FormatResponse(response)]_vars

\* the rows the requests wrote, in table order: the seeded rows left out
Written == SelectSeq(messages, LAMBDA m : m.req # 0)

\* the only request so far is a sendMessage on a seeded chat in UPLOAD; it
\* answered 200 after a successful AI call that cited a source, and its two
\* rows follow the seeded ones
C4_Witness ==
  /\ reqs[1].op = "sendMessage" /\ reqs[1].status = 200 /\ reqs[1].ai = "ok"
  /\ reqs[2].pc = "idle"
  /\ StateOf(chats, reqs[1].chat) = "CHAT"
  /\ messages = InitMessages \o Written
  /\ Len(Written) = 2
  /\ Written[1].sender = "USER" /\ Written[2].sender = "ASSISTANT"
  /\ Len(Written[2].content) > 1

\* the step in which addMessage sends its 201
Sends201(r) ==
  reqs'[r].op = "addMessage" /\ reqs'[r].status = 201 /\ reqs[r].status # 201

\* C5: addMessage sends 201 only once the user Message is persisted and never
\* waits for the AI call; the assistant Message is written by the detached
\* continuation, after the response.
C5_RespondsEarly ==
  [][\A r \in ReqIds :
       /\ Sends201(r) =>
            /\ reqs'[r].userIns = 1
            /\ messages' = Append(messages, messages'[Len(messages')])
            /\ UserRowsOf(messages', r) = << messages'[Len(messages')] >>
            /\ reqs'[r].ai = "" /\ reqs'[r].asstIns = 0
            /\ reqs'[r].pc = "aiPending" /\ reqs'[r].cont = "pending"
       /\ (reqs'[r].op = "addMessage" /\ reqs'[r].asstIns > reqs[r].asstIns) =>
            reqs[r].status = 201 /\ reqs[r].cont = "pending"]_vars

\* the 201 is out and the AI service has answered, but the assistant Message
\* is not written yet
C5_Witness ==
  \E r \in ReqIds :
    /\ reqs[r].op = "addMessage" /\ reqs[r].status = 201
    /\ reqs[r].pc = "thenCreate" /\ reqs[r].ai = "ok"
    /\ Len(UserRowsOf(messages, r)) = 1
    /\ AsstRowsOf(messages, r) = << >>

\* addMessage r has been accepted: its 201 is sent
Accepted(r) == reqs[r].op = "addMessage" /\ reqs[r].status = 201

AtMostOneAssistant ==
  \A r \in ReqIds :
    reqs[r].op = "addMessage" =>
      /\ reqs[r].asstIns <= 1
      /\ Len(AsstRowsOf(messages, r)) <= 1

\* C6 as stated: each accepted addMessage writes at most one assistant
\* Message, and under fairness exactly one is eventually written.
C6_AsStated ==
  /\ []AtMostOneAssistant
  /\ \A r \in ReqIds : Accepted(r) ~> (reqs[r].asstIns = 1)

\* C6 amended: each accepted addMessage writes at most one assistant Message
\* (the answer or the fallback, never both).  Under fairness its continuation
\* ends: with exactly one assistant Message written, or with none and an
\* unhandled rejection; none is possible only when the fallback insert is
\* rejected, because the chat was deleted meanwhile or the database failed.
C6_OneOrNone ==
  /\ []AtMostOneAssistant
  /\ [](\A r \in ReqIds :
          (Accepted(r) /\ Finished(r)) =>
            \/ reqs[r].asstIns = 1 /\ reqs[r].cont = "settled"
            \/ /\ reqs[r].asstIns = 0 /\ reqs[r].cont = "unhandled"
               /\ faults > 0 \/ ~ChatExists(chats, reqs[r].chat))
  /\ \A r \in ReqIds : Accepted(r) ~> (Accepted(r) /\ Finished(r))

\* the AI service answered, the insert of the answer was rejected, and the
\* continuation ended with the fallback as its one assistant Message
C6_Witness ==
  \E r \in ReqIds :
    /\ Accepted(r) /\ Finished(r) /\ reqs[r].ai = "ok"
    /\ reqs[r].asstIns = 1
    /\ Len(AsstRowsOf(messages, r)) = 1
    /\ AsstRowsOf(messages, r)[1].content = UnavailableText

DocRowsOf(docs, r) == SelectSeq(docs, LAMBDA d : d.req = r)

\* C7: on every upload route a file larger than the maximum (15 MB at most)
\* is rejected by the upload middleware before the controller runs: no
\* Document row is created and no object is stored.
C7_OversizeRejected ==
  \A r \in ReqIds :
    (reqs[r].op \in UploadOps /\ reqs[r].file > FileSizeLimit15MB) =>
      /\ reqs[r].pc = "done"
      /\ reqs[r].status \notin {200, 201}
      /\ r \notin objects /\ r \notin disk
      /\ DocRowsOf(documents, r) = << >>

\* the step in which uploadDocumentAndTriggerWorkflow, on disk storage,
\* answers 404 to its ownership check
DiskUploadRefused(r) ==
  /\ reqs[r].op = "uploadDocument" /\ StorageOf(reqs[r].route) = "disk"
  /\ reqs[r].pc = "lookup"
  /\ reqs'[r].status = 404

\* C8: with disk storage, when the ownership check of
\* uploadDocumentAndTriggerWorkflow fails, the temporary file that multer
\* wrote is deleted before the 404 is sent and no Document row is created.
C8_TempFileDeleted ==
  [][\A r \in ReqIds :
       /\ DiskUploadRefused(r) =>
            /\ r \in disk /\ r \notin disk'
            /\ documents' = documents
            /\ DocRowsOf(documents', r) = << >>
            /\ reqs'[r].pc = "done"
       /\ ( /\ reqs[r].op = "uploadDocument" /\ reqs[r].status = 404
            /\ StorageOf(reqs[r].route) = "disk" ) =>
            /\ r \notin disk'
            /\ DocRowsOf(documents', r) = << >>]_vars

\* a stranger's upload on the disk route was answered 404, its temporary
\* file is gone and the Document table is empty
C8_Witness ==
  \E r \in ReqIds :
    /\ reqs[r].op = "uploadDocument" /\ reqs[r].route = "chatsDisk"
    /\ reqs[r].caller = "u2" /\ reqs[r].file > 0
    /\ reqs[r].status = 404
    /\ r \notin disk
    /\ documents = << >>

\* the step in which request a, carrying a valid access token of user u,
\* passes through the route DELETE /account
DeleteAccountBy(a, u) ==
  /\ areqs[a].pc = "idle"
  /\ areqs'[a].op = "deleteAccount"
  /\ areqs'[a].token = [kind |-> "valid", userId |-> u]

\* C9: a DELETE /auth/account request of an authenticated, email-verified,
\* active user reaches the handler and leaves that user with isActive false;
\* the order of the middleware does not reject it.
C9_Deactivates ==
  [][\A a \in ReqIds, u \in UserIds :
       ( /\ DeleteAccountBy(a, u)
         /\ \E row \in users : row.id = u /\ row.isActive /\ row.isVerified )
       => /\ areqs'[a].status = 200
          /\ \E row \in users' : row.id = u /\ ~row.isActive]_vars

\* the handler of DELETE /account has deactivated seed account s
DeactivationDone(d, s) ==
  /\ areqs[d].op = "accountRoute" /\ areqs[d].pc = "done"
  /\ areqs[d].status = 200
  /\ areqs[d].token = [kind |-> "valid", userId |-> s.id]

\* a step of register request a, which carries the original email and
\* username of seed account s, taken after s has been deactivated; a is the
\* first registration since to ask for either name
RegistersAfter(a, s) ==
  /\ \E d \in ReqIds : DeactivationDone(d, s)
  /\ areqs'[a] # areqs[a] /\ areqs'[a].op = "register"
  /\ areqs'[a].email = s.email /\ areqs'[a].username = s.username
  /\ \A b \in ReqIds \ {a} :
       areqs[b].op = "register"
       => areqs[b].email # s.email /\ areqs[b].username # s.username

\* the row of seed account s is in the table, deactivated
RowKept(table, s) == \E row \in table : row.id = s.id /\ ~row.isActive

TokenCase(authHeader) ==
  IF authHeader.kind = "extra" THEN "uncounted"
  ELSE IF extractToken(authHeader) = NoToken THEN "no token"
  ELSE IF authHeader.kind = "garbage" THEN "invalid"
  ELSE IF authHeader.kind = "expired" THEN "expired"
  ELSE "accepted"

Guarded == {"getMe", "authMiddleware"}

\* C11: the authentication middleware rejects a request without a token, one
\* with an invalid token and one with an expired token with 401 and three
\* pairwise different error codes: two requests through the same middleware
\* whose tokens fall in different ones of these cases never get the same code
C11_DistinctCodes ==
  \A a, b \in ReqIds :
    ( /\ areqs[a].pc = "done" /\ areqs[b].pc = "done"
      /\ areqs[a].op \in Guarded /\ areqs[b].op = areqs[a].op
      /\ TokenCase(areqs[a].token) \in {"no token", "invalid", "expired"}
      /\ TokenCase(areqs[b].token) \in {"no token", "invalid", "expired"}
      /\ TokenCase(areqs[a].token) # TokenCase(areqs[b].token) )
    => ( /\ areqs[a].status = 401 /\ areqs[b].status = 401
         /\ areqs[a].code # areqs[b].code )

\* C12: optionalAuth never answers the request itself: it has called next()
\* exactly once when it is through and not at all before, and req.user is set
\* only to the user of a token that verifies, whose row exists and is active
C12_NextOnce ==
  \A a \in ReqIds :
    areqs[a].op = "optionalAuth"
    => ( /\ areqs[a].status = 0 /\ areqs[a].code = ""
         /\ areqs[a].nexts = IF areqs[a].pc = "done" THEN 1 ELSE 0
         /\ areqs[a].ident # 0
            => ( /\ verifyAccessToken(extractToken(areqs[a].token))
                 /\ areqs[a].ident = areqs[a].token.userId
                 /\ \E u \in users : u.id = areqs[a].ident /\ u.isActive ) )

\* a token that verifies, for a user id that has no row, went through
\* without an identity, and one for a seeded account went through with it
C12_Witness ==
  \E a, b \in ReqIds :
    /\ areqs[a].op = "optionalAuth" /\ areqs[a].pc = "done"
    /\ verifyAccessToken(areqs[a].token)
    /\ \A u \in users : u.id # areqs[a].token.userId
    /\ areqs[a].nexts = 1 /\ areqs[a].ident = 0
    /\ areqs[b].op = "optionalAuth" /\ areqs[b].pc = "done"
    /\ areqs[b].nexts = 1 /\ areqs[b].ident # 0
    /\ \E u \in InitUsers : u.id = areqs[b].ident

Refreshes == {"refresh", "refreshToken"}

\* C13: a refresh whose token is missing, invalid or expired is answered 401
\* with no access token and no refresh cookie; an access token or a cookie
\* is issued only with status 200, for the user of a refresh token that
\* verified and whose row was found
C13_FailureIsTerminal ==
  \A a \in ReqIds :
    areqs[a].op \in Refreshes
    => ( /\ ( areqs[a].pc = "done" /\ ~verifyRefreshToken(areqs[a].token) )
            => ( areqs[a].status = 401 /\ areqs[a].access = 0
                 /\ areqs[a].cookie = 0 )
         /\ ( areqs[a].access # 0 \/ areqs[a].cookie # 0 )
            => ( /\ areqs[a].status = 200
                 /\ verifyRefreshToken(areqs[a].token)
                 /\ areqs[a].access = areqs[a].token.userId
                 /\ \E u \in users : u.id = areqs[a].token.userId ) )

\* one refresh with an expired token was refused and another one with a
\* valid token got new tokens
C13_Witness ==
  \E a, b \in ReqIds :
    /\ areqs[a].op = "refresh" /\ areqs[a].pc = "done"
    /\ areqs[a].token.kind = "expired" /\ areqs[a].status = 401
    /\ areqs[a].access = 0 /\ areqs[a].cookie = 0
    /\ areqs[b].op = "refresh" /\ areqs[b].pc = "done"
    /\ areqs[b].status = 200 /\ areqs[b].access # 0 /\ areqs[b].cookie # 0

Orphans(rows) == { i \in DOMAIN rows : ~ChatExists(chats, rows[i].chatId) }

\* C14: in every state each Message, Document and Chart row belongs to a
\* chat that exists: deleting a chat takes all its rows with it, and an
\* insert that arrives after the deletion (the detached continuation of
\* addMessage included) adds no row
C14_NoOrphans ==
  Orphans(messages) = {} /\ Orphans(documents) = {} /\ Orphans(charts) = {}

\* a seeded chat was deleted while an addMessage that had stored its user
\* message in it was waiting for the AI service; its continuation ran
\* afterwards and left nothing behind: the seeded messages of the chat and
\* the user message are gone, the messages of the other chats are there
C14_Witness ==
  /\ documents = << >> /\ charts = << >>
  /\ \E r, d \in ReqIds :
       /\ reqs[r].op = "addMessage" /\ reqs[r].pc = "done"
       /\ reqs[r].userIns = 1 /\ reqs[r].asstIns = 0
       /\ reqs[r].cont = "unhandled" /\ reqs[r].ai # ""
       /\ reqs[d].op = "deleteChat" /\ reqs[d].status = 200
       /\ reqs[d].chat = reqs[r].chat
       /\ chats = { row \in InitChats : row.id # reqs[r].chat }
       /\ messages = SelectSeq(InitMessages,
                               LAMBDA m : m.chatId # reqs[r].chat)
       /\ Len(messages) < Len(InitMessages)

\* the chats a step deletes
Deleted == { c \in ChatIds : ChatExists(chats, c) /\ ~ChatExists(chats', c) }

\* C15: messages are append-only: a step of a chat operation leaves every
\* stored message as it is and in its place and at most adds one at the end,
\* or it deletes a chat and removes exactly the messages of that chat
C15_AppendOnly ==
  [][ \/ /\ Deleted = {}
         /\ Len(messages') \in { Len(messages), Len(messages) + 1 }
         /\ \A i \in DOMAIN messages : messages'[i] = messages[i]
      \/ /\ Deleted # {}
         /\ messages' = SelectSeq(messages, LAMBDA m : m.chatId \notin Deleted)
    ]_vars

\* an exchange is stored after the seeded rows, which are as they were, and
\* a chat has been updated since
C15_Witness ==
  /\ Len(Written) >= 2
  /\ messages = InitMessages \o Written
  /\ \E r \in ReqIds :
       reqs[r].op = "updateChat" /\ reqs[r].pc = "done" /\ reqs[r].status = 200

\* request r has stored its user message and not yet its assistant message
ExchangeOpen(r) ==
  reqs[r].pc \notin {"idle", "done"} /\ reqs[r].userIns = 1
  /\ reqs[r].asstIns = 0

\* the user insert of request r goes through
UserInsert(r) ==
  /\ SendCreateUser(r) \/ AddCreateUser(r)
  /\ Len(messages') = Len(messages) + 1

\* C16: nothing serializes the sends to one chat: while the exchange of one
\* request is open (user message stored, assistant message not yet), the user
\* insert of another request to the same chat can go through, so the stored
\* order need not be grouped per exchange
C16_NoSerialization ==
  \A r, q \in ReqIds :
    ( /\ r # q /\ ExchangeOpen(r)
      /\ reqs[q].pc = "createUser" /\ reqs[q].chat = reqs[r].chat
      /\ ChatExists(chats, reqs[q].chat) )
    => ENABLED UserInsert(q)

\* two exchanges of one chat, stored after the seeded rows in the order
\* user1, user2, assistant2, assistant1
C16_Witness ==
  /\ Len(Written) = 4
  /\ reqs[1].chat = reqs[2].chat
  /\ Written[1].req # Written[2].req
  /\ Written[4].req = Written[1].req /\ Written[3].req = Written[2].req
  /\ Written[1].sender \in UserSenders /\ Written[2].sender \in UserSenders
  /\ Written[3].sender \in AsstSenders /\ Written[4].sender \in AsstSenders

\* the assistant insert or the chat update of request r fails
LateFailure(r) ==
  /\ reqs[r].op \in SyncOps /\ reqs[r].pc \in {"createAsst", "update"}
  /\ reqs'[r].pc = "done" /\ reqs'[r].status = 500

\* C17: the inserts and the chat update of a synchronous send are separate
\* writes: the step in which the assistant insert or the chat update fails
\* answers 500 and changes neither the stored messages nor the chat, so the
\* rows written before stay and the state of the chat is not advanced
C17_IndependentWrites ==
  [][ \A r \in ReqIds :
        LateFailure(r) => ( messages' = messages /\ chats' = chats ) ]_vars

\* a send was answered 500 after both of its messages were stored, and the
\* chat is still in its first state
C17_Witness ==
  \E r \in ReqIds :
    /\ reqs[r].op \in SyncOps /\ reqs[r].pc = "done" /\ reqs[r].status = 500
    /\ reqs[r].userIns = 1 /\ reqs[r].asstIns = 1
    /\ Len(RowsOf(messages, r)) = 2
    /\ \A c \in chats : c.state = "UPLOAD"
    /\ chats # {}

\* the rows that register request a created
CreatedBy(a) ==
  { u \in users : u.emailVerificationToken = << RandomToken(a) >> }

\* no two User rows share an email or a username
UniqueNames ==
  \A u, v \in users :
    ( u.email = v.email \/ u.username = v.username ) => u = v

\* the create of register request a settles when another row already holds
\* its email or its username: a has lost the race
LosesRace(a) ==
  /\ AuthAt(a, "register", "create") /\ areqs'[a].pc = "done"
  /\ P2002(users, areqs[a].email, areqs[a].username)

\* C18 as stated: however register requests interleave, no two User rows
\* share an email or a username, and a request that loses the race after it
\* passed the existence check is answered 409, not 500, and creates no row.
C18_AsStated ==
  /\ []UniqueNames
  /\ [][\A a \in ReqIds :
          LosesRace(a) => areqs'[a].status = 409 /\ users' = users]_vars

\* C18 amended: however register requests interleave, no two User rows share
\* an email or a username.  A register request ends with 201 and its one
\* row, or with 409 and no row - also when the duplicate appeared after its
\* existence check and the unique constraint turned it down - or with 500
\* and no row when the database rejects the create for another reason than
\* the constraint, which can also happen to a request that lost the race.
C18_UniqueAccounts ==
  /\ UniqueNames
  /\ \A a \in ReqIds :
       ( areqs[a].op = "register" /\ areqs[a].pc = "done" )
       => \/ areqs[a].status = 201 /\ Cardinality(CreatedBy(a)) = 1
          \/ areqs[a].status = 409 /\ CreatedBy(a) = {}
          \/ /\ areqs[a].status = 500 /\ areqs[a].code \in DatabaseErrors
             /\ CreatedBy(a) = {}

\* two registrations of the same new email passed the existence check; one
\* created the account and the other was turned down by the constraint
C18_Witness ==
  \E a, b \in ReqIds :
    /\ areqs[a].op = "register" /\ areqs[a].status = 201
    /\ areqs[b].op = "register" /\ areqs[b].status = 409
    /\ areqs[b].code = DuplicateField.code
    /\ areqs[b].email = areqs[a].email
    /\ CreatedBy(b) = {}

Redeems == {"verifyEmail", "resetPassword"}

\* request a redeemed the token of its body
Redeemed(a) ==
  areqs[a].op \in Redeems /\ areqs[a].pc = "done" /\ areqs[a].status = 200

\* C19: verification and reset tokens are single-use: a request that
\* redeemed a token has cleared the stored token and its expiry, and no
\* other request succeeds with the same token
C19_SingleUse ==
  \A a \in ReqIds :
    Redeemed(a)
    => /\ \A u \in users :
            /\ areqs[a].op = "verifyEmail"
               => u.emailVerificationToken # areqs[a].secret
            /\ areqs[a].op = "resetPassword"
               => u.passwordResetToken # areqs[a].secret
       /\ \A b \in ReqIds \ {a} :
            ~( /\ Redeemed(b) /\ areqs[b].op = areqs[a].op
               /\ areqs[b].secret = areqs[a].secret )

\* the email of request a belongs to an account
Registered(a) == \E u \in users : u.email = areqs[a].email

\* C20: forgotPassword answers a registered and an unregistered email alike:
\* the same status and the same body.  Stated for requests none of whose
\* database calls was rejected.
C20_Indistinguishable ==
  \A a, b \in ReqIds :
    ( /\ areqs[a].op = "forgotPassword" /\ areqs[a].pc = "done"
      /\ areqs[b].op = "forgotPassword" /\ areqs[b].pc = "done"
      /\ areqs[a].status # 500 /\ areqs[b].status # 500
      /\ Registered(a) /\ ~Registered(b) )
    => ( /\ areqs[a].status = areqs[b].status
         /\ areqs[a].code = areqs[b].code
         /\ areqs[a].meta = areqs[b].meta )
\* the step in which updateChat answers 200
UpdateSucceeds(r) ==
  /\ reqs[r].op = "updateChat" /\ reqs[r].pc = "write"
  /\ reqs'[r].pc = "done" /\ reqs'[r].status = 200

RowOf(table, id) == CHOOSE c \in table : c.id = id

\* C28: updateChat reads the chat and then writes all three fields: a field
\* present in the body gets the body's value, an absent one is written back
\* with the value the lookup read, whatever the row holds by then; so of two
\* concurrent updateChat requests changing different fields one change can be
\* lost.
C28_ReadThenWrite ==
  [][\A r \in ReqIds :
       UpdateSucceeds(r) =>
         LET row == RowOf(chats', reqs[r].chat) IN
         /\ row.status = Or(reqs[r].upd.status, reqs[r].seen.status)
         /\ row.title = Or(reqs[r].upd.title, reqs[r].seen.title)
         /\ row.state = Or(reqs[r].upd.state, reqs[r].seen.state)]_vars

\* two updateChat requests of the owner to one seeded chat, one starring it
\* and one renaming it, have both answered 200, and only one of the two
\* changes is in the row: the other is lost
C28_Witness ==
  /\ \A r \in ReqIds :
       reqs[r].op = "updateChat" /\ reqs[r].pc = "done" /\ reqs[r].status = 200
  /\ reqs[1].chat = reqs[2].chat /\ reqs[1].caller = reqs[2].caller
  /\ { reqs[r].upd.status : r \in ReqIds } = {"STARRED", ""}
  /\ { reqs[r].upd.title : r \in ReqIds } = {"t2", ""}
  /\ reqs[1].upd.status = "STARRED" <=> reqs[1].upd.title = ""
  /\ ChatExists(InitChats, reqs[1].chat) /\ ChatExists(chats, reqs[1].chat)
  /\ LET row == RowOf(chats, reqs[1].chat)
         was == RowOf(InitChats, reqs[1].chat) IN
     \/ row.status = was.status /\ row.title = "t2"
     \/ row.status = "STARRED" /\ row.title = was.title

\* the step in which sendMessage or submitQuery answers 200
SyncSucceeds(r) ==
  /\ reqs[r].op \in SyncOps /\ reqs[r].pc # "done"
  /\ reqs'[r].pc = "done" /\ reqs'[r].status = 200

\* C29: when sendMessage or submitQuery answers 200 the chat is in state CHAT,
\* whatever state it was in before (UPLOAD, CHAT or VISUALIZE) and whether the
\* assistant Message holds the AI answer or the fallback text.
C29_StateChat ==
  [][\A r \in ReqIds :
       SyncSucceeds(r) => StateOf(chats', reqs[r].chat) = "CHAT"]_vars

\* updateChat has put the chat in state VISUALIZE and renamed it; a send whose
\* AI call failed then answered 200 with the fallback and the chat is in CHAT
C29_Witness ==
  /\ reqs[1].op = "updateChat" /\ reqs[1].status = 200
  /\ reqs[1].upd.state = "VISUALIZE"
  /\ ChatExists(chats, 1)
  /\ RowOf(chats, 1).title = "t2"
  /\ reqs[2].op \in SyncOps /\ reqs[2].status = 200 /\ reqs[2].ai = "fail"
  /\ StateOf(chats, 1) = "CHAT"

\* the requests of user u that the limiter let through, by position in rlog
Admitted(u) ==
  { i \in 1..Len(rlog) : rlog[i].user = << u >> /\ rlog[i].status = "next" }

\* those of them stamped in the window of RateWindow milliseconds ending at t
AdmittedIn(u, t) ==
  { i \in Admitted(u) : rlog[i].at > t - RateWindow /\ rlog[i].at <= t }

\* C21: for each authenticated user the limiter lets through at most max
\* requests stamped in any window of windowMs milliseconds (t - windowMs, t];
\* a request gets 429 exactly when max requests of the same user admitted
\* before it are stamped in the window ending at its own time, whatever
\* other users have sent; and the 429 is not recorded: the stored history of
\* a user holds timestamps of admitted requests of that user only.
C21_SlidingWindow ==
  /\ \A u \in RateUsers, t \in 0..MaxNow :
       Cardinality(AdmittedIn(u, t)) <= RateMax
  /\ \A i \in 1..Len(rlog) :
       rlog[i].user # Null =>
         LET u == rlog[i].user[1]
             before == { j \in AdmittedIn(u, rlog[i].at) : j < i } IN
         (rlog[i].status = "429") <=> (Cardinality(before) >= RateMax)
  /\ \A u \in RateUsers :
       /\ Len(userRequests[u]) <= Cardinality(Admitted(u))
       /\ \A k \in 1..Len(userRequests[u]) :
            \E i \in Admitted(u) : rlog[i].at = userRequests[u][k]

\* u1 was let through max times within one window and then got 429, while a
\* request of u2 stamped at the same time went through
C21_Witness ==
  \E i, j \in 1..Len(rlog) :
    /\ rlog[i].user = << "u1" >> /\ rlog[i].status = "429"
    /\ Cardinality(AdmittedIn("u1", rlog[i].at)) = RateMax
    /\ j > i
    /\ rlog[j].user = << "u2" >> /\ rlog[j].status = "next"
    /\ rlog[j].at = rlog[i].at
    /\ Len(userRequests["u1"]) = RateMax

\* the step in which getChartById answers, its database call not rejecting
ChartAnswers(r) ==
  /\ reqs[r].op = "getChartById" /\ reqs[r].pc = "findFirst"
  /\ reqs'[r].pc = "done"
  /\ faults' = faults

\* C27: getChartById answers 200 when the chart exists and belongs to the
\* caller and 404 when it does not exist or belongs to another user; it does
\* not answer 500 for an existing chart of the caller.
C27_AsStated ==
  [][\A r \in ReqIds :
       ChartAnswers(r) =>
         reqs'[r].status =
           IF FindFirstChart(charts, reqs[r].file, reqs[r].caller) = NoChart
           THEN 404 ELSE 200]_vars

\* the metadata documents of the files of request r
FilesOf(r) ==
  { f \in files : \E k \in 1..Len(freqs[r].fileIds) : f.id = freqs[r].fileIds[k] }

\* uploadFiles has stored the metadata of every file of the request
AllStored(r) ==
  freqs[r].op = "uploadFiles" /\ freqs[r].writes = Len(freqs[r].fileIds)

\* the step is taken by a request that runs, or has run, processFilesInAI
ProcessingStep(r) ==
  freqs'[r] # freqs[r] /\ freqs'[r].op \in ProcessOps

\* C22: once uploadFiles has stored the metadata of all its files it answers
\* success with exactly those files, whether processFilesInAI returns, throws
\* or cannot be called; and no step of uploadFiles or of processFilesInAI,
\* failing or not, removes a metadata document from the collection.
C22_UploadSucceeds ==
  [][\A r \in ReqIds :
       /\ ( /\ freqs'[r] # freqs[r]
            /\ freqs'[r].op = "uploadFiles"
            /\ freqs'[r].writes = Len(freqs'[r].fileIds)
            /\ freqs'[r].pc = "done" )
          => /\ freqs'[r].status = 200
             /\ freqs'[r].body = freqs'[r].fileIds
       /\ ProcessingStep(r) =>
            \A f \in files :
              \E g \in files' : g.id = f.id /\ g.userId = f.userId]_vars

\* an upload of two files called on the controller has answered 200 although
\* the transfer of a file to the AI service failed and the file is marked
\* failed
C22_Witness ==
  \E r \in ReqIds :
    /\ AllStored(r) /\ Len(freqs[r].fileIds) = 2
    /\ freqs[r].called /\ freqs[r].ai = "fail"
    /\ freqs[r].pc = "done" /\ freqs[r].status = 200
    /\ \E f \in FilesOf(r) : f.processingStatus = "failed"

\* C23: when processFilesInAI has returned or thrown, no database call having
\* been rejected, every file that was passed to it is completed or failed,
\* also when an earlier file of the batch failed.
C23_AllTerminal ==
  \A r \in ReqIds :
    ( /\ freqs[r].op \in ProcessOps /\ freqs[r].called
      /\ freqs[r].pc = "done" /\ faults = 0
      /\ \A q \in ReqIds \ {r} : freqs[q].pc = "idle" )
    => \A f \in FilesOf(r) : f.processingStatus \in {"completed", "failed"}

\* deleteFile has removed the file for user u, whose file it was
DeletedBy(id, u) ==
  \E q \in ReqIds :
    /\ freqs[q].op = "deleteFile" /\ freqs[q].status = 200
    /\ freqs[q].fileIds = << id >> /\ freqs[q].caller = u

\* the body of the request names a file that is not a file of the caller,
\* and has not been one
BadIds(rec, rows) ==
  \E k \in 1..Len(rec.fileIds) :
    /\ ~ OwnsFile(rows, rec.fileIds[k], rec.caller)
    /\ ~ DeletedBy(rec.fileIds[k], rec.caller)

\* request r is about to learn that the file it looks up is not the caller's
FailsCheck(r) ==
  /\ freqs[r].pc = "validate"
  /\ ~ OwnsFile(files, freqs[r].fileIds[freqs[r].i], freqs[r].caller)

\* C26 as stated: processFiles, reprocessFiles and submitQuery check every
\* fileId of the body before they write anything: when one of them is not a
\* file of the caller, no step of the request changes a file or creates a
\* query document, the AI service is not called, and the response is 403.
C26_AsStated ==
  [][\A r \in ReqIds :
       ( /\ freqs'[r] # freqs[r] /\ freqs'[r].op \in ValidatingOps
         /\ BadIds(freqs'[r], files) )
       => /\ files' = files /\ queries' = queries
          /\ freqs'[r].aiCalls = 0 /\ freqs'[r].writes = 0
          /\ ~ freqs'[r].called
          /\ freqs'[r].pc = "done" => freqs'[r].status = 403]_vars

\* C26 amended: processFiles, reprocessFiles and submitQuery check every
\* fileId of the body before they write anything: when one of them is not a file of the
\* caller, no step of the request changes a file or creates a query document,
\* the AI service is not called, and the request ends with 403 (or with 400
\* for an invalid query, or 500 when the lookup itself is rejected).  A file
\* is the caller's or not as the lookup finds it: one that deleteFile removes
\* before its lookup is answered 403 in the same way, one removed after it
\* has passed the lookup is not looked up again.
C26_ValidateFirst ==
  [][\A r \in ReqIds :
       ( freqs'[r] # freqs[r] /\ freqs'[r].op \in ValidatingOps )
       => /\ BadIds(freqs'[r], files) =>
               /\ files' = files /\ queries' = queries
               /\ freqs'[r].aiCalls = 0 /\ freqs'[r].writes = 0
               /\ ~ freqs'[r].called
               /\ freqs'[r].pc \in {"validate", "done"}
               /\ freqs'[r].pc = "done" =>
                    \/ freqs'[r].status = 403
                    \/ freqs'[r].status = 400 /\ freqs'[r].op = "submitQuery"
                    \/ freqs'[r].status = 500 /\ faults' > faults
          /\ FailsCheck(r) =>
               /\ files' = files /\ queries' = queries
               /\ freqs'[r].aiCalls = 0 /\ freqs'[r].writes = 0
               /\ ~ freqs'[r].called
               /\ freqs'[r].pc = "done"
               /\ \/ freqs'[r].status = 403
                  \/ freqs'[r].status = 500 /\ faults' > faults]_vars

\* a reprocessFiles request and a submitQuery request have run; all that
\* ended got 403, one of them for a body whose first fileId is a file of the
\* caller and whose second is a file of another user; files and queries are
\* as before
C26_Witness ==
  /\ \E r \in ReqIds :
       /\ freqs[r].op \in ValidatingOps
       /\ freqs[r].pc = "done" /\ freqs[r].status = 403
       /\ freqs[r].i = 2 /\ freqs[r].caller = "u1"
       /\ freqs[r].fileIds = << Doc(1), Doc(2) >>
  /\ \A r \in ReqIds : freqs[r].pc = "done" => freqs[r].status = 403
  /\ { freqs[r].op : r \in ReqIds } = {"reprocessFiles", "submitQuery"}
  /\ files = InitFiles /\ queries = InitQueries

\* C25: a DELETE request for /history that reaches the query router is
\* handled by clearQueryHistory, not by the DELETE /:queryId route, and is
\* answered 200 when it has finished.
C25_HistoryRoute ==
  \A r \in ReqIds :
    ( /\ freqs[r].via = "router" /\ freqs[r].method = "DELETE"
      /\ freqs[r].path = << Lit("history") >> )
    => /\ freqs[r].op = "clearQueryHistory"
       /\ freqs[r].pc = "done" => freqs[r].status = 200

\* the query document with an id, in a collection that holds it
QueryOf(rows, id) == CHOOSE q \in rows : q.id = id

\* the step in which submitQuery answers after it has stored its document
QueryAnswers(r) ==
  /\ freqs[r].op = "submitQuery" /\ freqs[r].pc \in {"complete", "fail"}
  /\ freqs'[r].pc = "done"

Started == << "query_processing_started" >>

\* C24 as stated: when submitQuery answers, its document is completed, the
\* status is 200 and query_result follows query_processing_started if the AI
\* call succeeded; otherwise the document is failed, the status is 500 and
\* query_error follows query_processing_started.
C24_AsStated ==
  [][\A r \in ReqIds :
       QueryAnswers(r) =>
         /\ HasQuery(queries', freqs[r].queryId)
         /\ IF freqs[r].ai = "ok"
            THEN /\ freqs'[r].status = 200
                 /\ QueryOf(queries', freqs[r].queryId).status = "completed"
                 /\ freqs'[r].events = Append(Started, "query_result")
            ELSE /\ freqs'[r].status = 500
                 /\ QueryOf(queries', freqs[r].queryId).status = "failed"
                 /\ freqs'[r].events = Append(Started, "query_error")]_vars

\* C24: the document of submitQuery is created with status processing, after
\* which query_processing_started is emitted. When the handler answers, one
\* of three cases holds. 200: the AI call succeeded, the document is
\* completed and query_result was emitted. 500 with the document failed and
\* query_error emitted: the AI call failed, or it succeeded and the update to
\* completed was rejected. 500 with no further event and the document as it
\* was (processing, or deleted by another request): the update to failed was
\* rejected. A successful AI call whose update is not rejected is answered 200.
C24_TerminalStatus ==
  [][\A r \in ReqIds :
       /\ ( freqs[r].op = "submitQuery" /\ freqs[r].pc = "add"
            /\ freqs'[r].pc = "ai" ) =>
            /\ HasQuery(queries', freqs'[r].queryId)
            /\ QueryOf(queries', freqs'[r].queryId).status = "processing"
            /\ freqs'[r].events = Started
       /\ QueryAnswers(r) =>
            \/ /\ freqs'[r].status = 200
               /\ freqs[r].ai = "ok"
               /\ HasQuery(queries', freqs[r].queryId)
               /\ QueryOf(queries', freqs[r].queryId).status = "completed"
               /\ freqs'[r].events = Append(Started, "query_result")
            \/ /\ freqs'[r].status = 500
               /\ freqs[r].pc = "fail"
               /\ HasQuery(queries', freqs[r].queryId)
               /\ QueryOf(queries', freqs[r].queryId).status = "failed"
               /\ freqs'[r].events = Append(Started, "query_error")
            \/ /\ freqs'[r].status = 500
               /\ freqs[r].pc = "fail"
               /\ faults' > faults \/ ~ HasQuery(queries, freqs[r].queryId)
               /\ queries' = queries
               /\ HasQuery(queries, freqs[r].queryId) =>
                    QueryOf(queries, freqs[r].queryId).status = "processing"
               /\ freqs'[r].events = Started
       /\ ( freqs[r].op = "submitQuery" /\ freqs[r].pc = "complete"
            /\ freqs'[r] # freqs[r] /\ faults' = faults
            /\ HasQuery(queries, freqs[r].queryId) ) =>
            freqs'[r].status = 200]_vars

\* two submitQuery requests have answered: one 200 with its document
\* completed, one 500 after a failed AI call with its document failed
C24_Witness ==
  \E r, q \in ReqIds :
    /\ freqs[r].op = "submitQuery" /\ freqs[r].status = 200
    /\ HasQuery(queries, freqs[r].queryId)
    /\ QueryOf(queries, freqs[r].queryId).status = "completed"
    /\ freqs[r].events = Append(Started, "query_result")
    /\ freqs[q].op = "submitQuery" /\ freqs[q].status = 500
    /\ freqs[q].ai = "fail"
    /\ HasQuery(queries, freqs[q].queryId)
    /\ QueryOf(queries, freqs[q].queryId).status = "failed"
    /\ freqs[q].events = Append(Started, "query_error")

====
